---------------------------- MODULE Spec2Model ----------------------------
(***************************************************************************)
(* Model of the adobe-proxy relay (adobe-mcp-rs/adobe-proxy/src/main.rs):  *)
(* the session registry (AppState), the event router (handle_event) and    *)
(* the per-connection handler (handle_socket) with its reader task, its    *)
(* writer task and its cleanup.                                            *)
(*                                                                         *)
(* Granularity.  The relay runs on the multi-threaded tokio runtime, so    *)
(* the tasks of different connections, and the three tasks of one          *)
(* connection (handle_socket, recv_task, send_task), run in parallel.      *)
(* Every DashMap operation is atomic (it holds the shard lock), and the    *)
(* steps of the model are cut where the code releases one registry lock    *)
(* and takes the next one in register_client and unregister_client.        *)
(* A spawned task that is aborted stops at its next await: synchronous     *)
(* code that is already running (register_client) runs to its end.         *)
(***************************************************************************)
EXTENDS Integers, Sequences, FiniteSets, TLC

\* ------------------------------------------------------------------ bounds
NumSessions == 3
MaxEvents == 3
\* Connections accepted in the specification that covers both configurations.
NumLaunchSessions == 2

Sessions == 1..NumSessions
Apps == {"acrobat", "photoshop"}
Commands == {"getPageCount"}
Payloads == {"pageCount3"}
None == "none"
\* The senderId of a packet that carries no string senderId.
NoSender == 0

\* ------------------------------------------------------------------ state
VARIABLES
    clients,              \* AppState.clients: session id -> ClientInfo
    application_clients,  \* AppState.application_clients: application -> Vec of ids
    auto_launch,          \* AppState.auto_launch (Args.auto_launch)
    chan,                 \* per session: the frames in its broadcast channel, oldest first
    socket,               \* per session: the frame last written to its WebSocket
    conn,                 \* per session: position of handle_socket
    recv_task,            \* per session: "none" | "running" | "ended" | "stopped"
    send_task,            \* per session: "none" | "running" | "ended" | "stopped"
    rpc,                  \* per session: position of recv_task inside handle_event
    rarg,                 \* per session: the event recv_task is in the middle of
    uapp,                 \* per session: client_info.application held by unregister_client
    unregister_calls,     \* per session: number of calls of unregister_client
    events,               \* number of inbound frames the relay has dispatched
    message,              \* socket_io: the text frame handed to decode_event
    decoded,              \* socket_io: what decode_event returned for it
    sent,                 \* per session: every frame tx.send put into its channel
    written,              \* per session: the channel frames send_task wrote to the socket
    task_op,              \* per task: the registry operation it runs and its position in it
    control,              \* AcrobatClient: its calls of send_command and its socket
    agent,                \* ProxyClient: its outbound channel and its write task
    plugin,               \* ffi: INITIALIZED, PluginState and the connection tasks
    server                \* main: the bound port, the uptime and the last /status reply

\* The state of the relay proper.
relay_vars == <<clients, application_clients, auto_launch, chan, socket, conn,
                recv_task, send_task, rpc, rarg, uapp, unregister_calls, events,
                sent, written>>

vars == <<clients, application_clients, auto_launch, chan, socket, conn,
          recv_task, send_task, rpc, rarg, uapp, unregister_calls, events,
          message, decoded, sent, written, task_op, control, agent, plugin, server>>

\* ------------------------------------------------------------------ helpers
SeqToSet(q) == {q[i] : i \in 1..Len(q)}

MapRemove(f, k) == [x \in (DOMAIN f) \ {k} |-> f[x]]

MapInsert(f, k, v) == [x \in (DOMAIN f) \cup {k} |-> IF x = k THEN v ELSE f[x]]

NoArg == [application |-> None, command |-> None]

\* encode_event: the event-frame prefix followed by the array [event, data].
encode_event(event, data) == [prefix |-> "42", event |-> event, data |-> data]

ENGINE_PONG == [prefix |-> "3"]

SOCKET_IO_CONNECT == [prefix |-> "40"]

\* The Engine.IO open frame of handle_socket: "0" followed by the session id and
\* the keepalive parameters.
OpenFrame(client_id) ==
    [prefix |-> "0", sid |-> client_id, pingInterval |-> 25000, pingTimeout |-> 20000]

\* What socket holds while no WebSocket is open for the session.
Closed == [prefix |-> "closed"]

\* The payload of the command_packet event forwarded to the application.
CommandPacketWithSender(sender, app, cmd) ==
    [senderId |-> sender, application |-> app, command |-> cmd]

\* A response envelope as an application-side agent sends it.
Packets == [senderId : Sessions \cup {NoSender}, status : {"SUCCESS"}, response : Payloads]

\* The FAILURE envelope built by handle_event; note is the auto-launch note.
FailurePacket(client_id, app, note) ==
    [senderId |-> client_id, status |-> "FAILURE",
     message |-> <<"No clients registered for application: ", app, note>>]

RegistrationResponse(app) ==
    [type |-> "registration", status |-> "success", message |-> <<"Registered for ", app>>]

\* A broadcast::Sender delivers only while the receiver lives: handle_socket holds
\* it during the handshake, send_task owns it afterwards.
RxAlive(s) == send_task[s] = "running" \/ conn[s] = "handshake"

\* tx.send(frame) on the channel of session s; the result of send is ignored.
TxSend(ch, s, frame) ==
    IF RxAlive(s) THEN [ch EXCEPT ![s] = Append(@, frame)] ELSE ch

\* ------------------------------------------------------------------ locks
\* The two DashMaps of AppState, each taken as one reader-writer lock (a DashMap
\* locks the shard of the key; one lock per map is the coarsest case).
Locks == {"clients", "application_clients"}

\* The number of tasks that call registry operations concurrently.
NumTasks == 3

Tasks == 1..NumTasks

Acquire(lock, mode) == [do |-> "acquire", lock |-> lock, mode |-> mode]

Release(lock) == [do |-> "release", lock |-> lock, mode |-> "none"]

\* A register_client that keeps the guard of clients while it takes the entry.
register_client_locks_nested ==
    << Acquire("clients", "write"), Acquire("application_clients", "write"),
       Release("application_clients"), Release("clients") >>

\* AppState::register_client: clients.get_mut, whose guard is dropped at the end
\* of the `if let`, then application_clients.entry.
register_client_locks ==
    << Acquire("clients", "write"), Release("clients"),
       Acquire("application_clients", "write"), Release("application_clients") >>

\* AppState::unregister_client: clients.remove, application_clients.get_mut,
\* drop of the guard, application_clients.remove.
unregister_client_locks ==
    << Acquire("clients", "write"), Release("clients"),
       Acquire("application_clients", "write"), Release("application_clients"),
       Acquire("application_clients", "write"), Release("application_clients") >>

\* AppState::send_to_application: application_clients.get, whose guard lives to
\* the return, and clients.get inside the loop over the ids.
send_to_application_locks ==
    << Acquire("application_clients", "read"),
       Acquire("clients", "read"), Release("clients"),
       Release("application_clients") >>

\* AppState::send_to_client: clients.get.
send_to_client_locks == << Acquire("clients", "read"), Release("clients") >>

\* AppState::has_application_client: application_clients.get.
has_application_client_locks ==
    << Acquire("application_clients", "read"), Release("application_clients") >>

\* AppState::get_status: application_clients.iter.
get_status_locks ==
    << Acquire("application_clients", "read"), Release("application_clients") >>

\* The lock steps of every path through the six operations.  The paths that
\* return early are unregister_client without a record or without an
\* application or with ids left in the Vec, and send_to_application without an
\* entry.
OperationPaths ==
    [ register_client |-> register_client_locks,
      unregister_client |-> unregister_client_locks,
      unregister_client_no_record |-> SubSeq(unregister_client_locks, 1, 2),
      unregister_client_ids_left |-> SubSeq(unregister_client_locks, 1, 4),
      send_to_application |-> send_to_application_locks,
      send_to_application_no_entry |-> has_application_client_locks,
      send_to_client |-> send_to_client_locks,
      has_application_client |-> has_application_client_locks,
      get_status |-> get_status_locks ]

Idle == [op |-> "idle", pc |-> 1]

Busy(t) == task_op[t].op # "idle"

\* The lock step the task is about to take.
NextLockStep(t) == OperationPaths[task_op[t].op][task_op[t].pc]

\* The mode in which the task holds the lock, "none" when it does not.
HeldMode(t, lock) ==
    IF ~Busy(t) THEN "none"
    ELSE LET path == OperationPaths[task_op[t].op]
             taken == { i \in 1..(task_op[t].pc - 1) :
                          /\ path[i].do = "acquire"
                          /\ path[i].lock = lock
                          /\ \A j \in (i + 1)..(task_op[t].pc - 1) :
                                ~(path[j].do = "release" /\ path[j].lock = lock) }
         IN IF taken = {} THEN "none" ELSE path[CHOOSE i \in taken : TRUE].mode

\* The task is at an acquire of the lock.
Wants(t, lock) ==
    Busy(t) /\ NextLockStep(t).do = "acquire" /\ NextLockStep(t).lock = lock

\* A write lock excludes every other holder, a read lock every writer.
CanAcquire(t, lock, mode) ==
    \A u \in Tasks \ {t} :
        /\ HeldMode(u, lock) # "write"
        /\ mode = "write" => HeldMode(u, lock) = "none"

\* A task calls one of the operations.
StartOp(t, op) ==
    /\ ~Busy(t)
    /\ task_op' = [task_op EXCEPT ![t] = [op |-> op, pc |-> 1]]
    /\ UNCHANGED <<relay_vars, message, decoded, control, agent, plugin, server>>

\* The position behind the step the task is at; behind the last step the
\* operation has returned.
Advance(t) ==
    IF task_op[t].pc = Len(OperationPaths[task_op[t].op])
    THEN Idle
    ELSE [task_op[t] EXCEPT !.pc = @ + 1]

LockAcquire(t) ==
    /\ Busy(t)
    /\ NextLockStep(t).do = "acquire"
    /\ CanAcquire(t, NextLockStep(t).lock, NextLockStep(t).mode)
    /\ task_op' = [task_op EXCEPT ![t] = Advance(t)]
    /\ UNCHANGED <<relay_vars, message, decoded, control, agent, plugin, server>>

LockRelease(t) ==
    /\ Busy(t)
    /\ NextLockStep(t).do = "release"
    /\ task_op' = [task_op EXCEPT ![t] = Advance(t)]
    /\ UNCHANGED <<relay_vars, message, decoded, control, agent, plugin, server>>

\* ------------------------------------------------------------------ AcrobatClient
\* The number of send_command calls followed on one connection.
MaxCalls == 3

Calls == 1..MaxCalls

NoCall == 0

\* What a call of send_command has returned so far.
NotReturned == [kind |-> "not returned", of |-> NoCall, status |-> "none"]

TimedOut == [kind |-> "timeout", of |-> NoCall, status |-> "none"]

\* The CommandResponse a call returned: `of` is the call whose command the
\* response was produced for.
Returned(response) == [kind |-> "response", of |-> response.of, status |-> response.status]

\* AcrobatClient after new(): no call made, nothing on the socket.  `call` is
\* the call holding the mutex of ws, `commands` the commands the relay has not
\* answered yet, `inbound` the frames on the socket towards the client.
ControlInit ==
    [ call |-> NoCall, made |-> 0, commands |-> {}, inbound |-> <<>>,
      result |-> [c \in Calls |-> NotReturned] ]

\* The rest of the model is left alone by the steps of the control client.
ControlOnly == UNCHANGED <<relay_vars, message, decoded, task_op, agent, plugin, server>>

\* send_command up to ws.send: the call takes the mutex and writes its
\* command_packet.
SendCommand ==
    /\ control.call = NoCall
    /\ control.made < MaxCalls
    /\ control' = [control EXCEPT !.call = control.made + 1,
                                  !.made = @ + 1,
                                  !.commands = @ \cup {control.made + 1}]
    /\ ControlOnly

\* The relay writes the packet_response produced for a command to the socket
\* of the session that sent the command.
ResponseArrives(c, status) ==
    /\ c \in control.commands
    /\ control' = [control EXCEPT
                     !.commands = @ \ {c},
                     !.inbound = Append(@, [event |-> "packet_response",
                                            of |-> c, status |-> status])]
    /\ ControlOnly

\* The relay writes a frame that is not a packet_response (a pong).
OtherFrameArrives ==
    /\ Len(control.inbound) < MaxCalls
    /\ control' = [control EXCEPT
                     !.inbound = Append(@, [event |-> "none", of |-> NoCall,
                                            status |-> "none"])]
    /\ ControlOnly

\* The loop of send_command takes the next frame: the first packet_response is
\* returned, any other frame is skipped.
ReadFrame ==
    /\ control.call # NoCall
    /\ control.inbound # <<>>
    /\ LET frame == Head(control.inbound) IN
       control' = [control EXCEPT
                     !.inbound = Tail(@),
                     !.call = IF frame.event = "packet_response" THEN NoCall ELSE @,
                     !.result[control.call] =
                         IF frame.event = "packet_response" THEN Returned(frame) ELSE @]
    /\ ControlOnly

\* tokio::time::timeout elapses while the loop waits for a frame.
CommandTimeout ==
    /\ control.call # NoCall
    /\ control.inbound = <<>>
    /\ control' = [control EXCEPT !.call = NoCall,
                                  !.result[control.call] = TimedOut]
    /\ ControlOnly

\* ------------------------------------------------------------------ socket_io
\* A text frame is a sequence of tokens.  A token is a character that stands
\* outside JSON text (kind "ch"), a JSON punctuation character (kind "p"), or a
\* whole JSON string, number or literal (kinds "str", "num", "lit").
Ch(c) == [k |-> "ch", v |-> c]

P(c) == [k |-> "p", v |-> c]

StrTok(x) == [k |-> "str", v |-> x]

NumTok(x) == [k |-> "num", v |-> x]

LitTok(x) == [k |-> "lit", v |-> x]

\* serde_json::Value: the type, the text of a string or number, and the
\* elements of an array (for an object: key, value, key, value, ...).
JNull == [t |-> "null", s |-> "", items |-> <<>>]

JStr(x) == [t |-> "str", s |-> x, items |-> <<>>]

JNum(x) == [t |-> "num", s |-> x, items |-> <<>>]

JArr(items) == [t |-> "arr", s |-> "", items |-> items]

JObj(members) == [t |-> "obj", s |-> "", items |-> members]

RECURSIVE Ser(_)
RECURSIVE SerJoin(_, _, _)

\* The elements of items from index i on, separated by "," (in an object, a key
\* and its value by ":").
SerJoin(items, i, object) ==
    IF i > Len(items) THEN <<>>
    ELSE Ser(items[i]) \o
         ( IF i = Len(items) THEN <<>>
           ELSE IF object /\ i % 2 = 1 THEN <<P(":")>>
           ELSE <<P(",")>> ) \o
         SerJoin(items, i + 1, object)

\* The text serde_json writes for a Value (compact, as Display of json! does).
Ser(v) ==
    CASE v.t = "null" -> <<LitTok("null")>>
      [] v.t = "str" -> <<StrTok(v.s)>>
      [] v.t = "num" -> <<NumTok(v.s)>>
      [] v.t = "arr" -> <<P("[")>> \o SerJoin(v.items, 1, FALSE) \o <<P("]")>>
      [] v.t = "obj" -> <<P("{")>> \o SerJoin(v.items, 1, TRUE) \o <<P("}")>>

ParseFail == [ok |-> FALSE, val |-> JNull, next |-> 0]

ParseOk(v, next) == [ok |-> TRUE, val |-> v, next |-> next]

TokAt(toks, i) == IF i >= 1 /\ i <= Len(toks) THEN toks[i] ELSE Ch("")

RECURSIVE ParseValue(_, _)
RECURSIVE ParseItems(_, _, _)
RECURSIVE ParseMembers(_, _, _)

\* The elements of an array after its "[", up to and including its "]".
ParseItems(toks, i, acc) ==
    LET r == ParseValue(toks, i) IN
    IF ~r.ok THEN ParseFail
    ELSE IF TokAt(toks, r.next) = P(",")
         THEN ParseItems(toks, r.next + 1, Append(acc, r.val))
    ELSE IF TokAt(toks, r.next) = P("]")
         THEN ParseOk(JArr(Append(acc, r.val)), r.next + 1)
    ELSE ParseFail

\* The members of an object after its "{", up to and including its "}".
ParseMembers(toks, i, acc) ==
    IF TokAt(toks, i).k # "str" \/ TokAt(toks, i + 1) # P(":") THEN ParseFail
    ELSE LET r == ParseValue(toks, i + 2) IN
         IF ~r.ok THEN ParseFail
         ELSE IF TokAt(toks, r.next) = P(",")
              THEN ParseMembers(toks, r.next + 1,
                                acc \o <<JStr(TokAt(toks, i).v), r.val>>)
         ELSE IF TokAt(toks, r.next) = P("}")
              THEN ParseOk(JObj(acc \o <<JStr(TokAt(toks, i).v), r.val>>), r.next + 1)
         ELSE ParseFail

\* One JSON value starting at token i.
ParseValue(toks, i) ==
    LET tok == TokAt(toks, i) IN
    CASE tok.k = "str" -> ParseOk(JStr(tok.v), i + 1)
      [] tok.k = "num" -> ParseOk(JNum(tok.v), i + 1)
      [] tok = LitTok("null") -> ParseOk(JNull, i + 1)
      [] tok = P("[") ->
            IF TokAt(toks, i + 1) = P("]")
            THEN ParseOk(JArr(<<>>), i + 2)
            ELSE ParseItems(toks, i + 1, <<>>)
      [] tok = P("{") ->
            IF TokAt(toks, i + 1) = P("}")
            THEN ParseOk(JObj(<<>>), i + 2)
            ELSE ParseMembers(toks, i + 1, <<>>)
      [] OTHER -> ParseFail

\* serde_json::from_str::<Value>: one value and nothing after it.
from_str(toks) ==
    LET r == ParseValue(toks, 1) IN
    IF r.ok /\ r.next = Len(toks) + 1 THEN r ELSE ParseFail

SOCKET_IO_EVENT_PREFIX == <<Ch("4"), Ch("2")>>

\* encode_event as text: the prefix followed by the JSON array [event, data].
encode_event_text(event, data) ==
    SOCKET_IO_EVENT_PREFIX \o Ser(JArr(<<JStr(event), data>>))

\* str::starts_with
starts_with(text, prefix) ==
    /\ Len(text) >= Len(prefix)
    /\ SubSeq(text, 1, Len(prefix)) = prefix

\* The strings of the model that contain the character "[".
BracketStrings == {"a[b"}

\* The token holds the character "[".
HasBracket(tok) == tok = P("[") \/ (tok.k = "str" /\ tok.v \in BracketStrings)

\* message.find('['): the index of the first token holding "[", or no index.
NoIndex == 0

\* A find that looks for "[" only right behind the prefix.
find_bracket_after_prefix(text) ==
    IF Len(text) > Len(SOCKET_IO_EVENT_PREFIX)
       /\ HasBracket(text[Len(SOCKET_IO_EVENT_PREFIX) + 1])
    THEN Len(SOCKET_IO_EVENT_PREFIX) + 1
    ELSE NoIndex

find_bracket(text) ==
    LET hits == {i \in 1..Len(text) : HasBracket(text[i])} IN
    IF hits = {} THEN NoIndex
    ELSE CHOOSE i \in hits : \A j \in hits : i <= j

\* Option<(String, Value)>
Nothing == [kind |-> "none", event |-> "", data |-> JNull]

Some(event, data) == [kind |-> "some", event |-> event, data |-> data]

\* The value of `decoded` before decode_event has run on the message.
NotDecoded == [kind |-> "not decoded", event |-> "", data |-> JNull]

\* A decode_event that returns the event name in the place of the payload.
decode_event_name_as_data(text) ==
    IF ~starts_with(text, SOCKET_IO_EVENT_PREFIX) THEN Nothing
    ELSE LET json_start == find_bracket(text) IN
         IF json_start = NoIndex THEN Nothing
         ELSE IF text[json_start] # P("[") THEN Nothing
         ELSE LET r == from_str(SubSeq(text, json_start, Len(text))) IN
              IF /\ r.ok
                 /\ r.val.t = "arr"
                 /\ Len(r.val.items) >= 2
                 /\ r.val.items[1].t = "str"
              THEN Some(r.val.items[1].s, r.val.items[1])
              ELSE Nothing

\* A decode_event without the check of the prefix.
decode_event_any_prefix(text) ==
    LET json_start == find_bracket(text) IN
    IF json_start = NoIndex THEN Nothing
    ELSE IF text[json_start] # P("[") THEN Nothing
    ELSE LET r == from_str(SubSeq(text, json_start, Len(text))) IN
         IF /\ r.ok
            /\ r.val.t = "arr"
            /\ Len(r.val.items) >= 2
            /\ r.val.items[1].t = "str"
         THEN Some(r.val.items[1].s, r.val.items[2])
         ELSE Nothing

\* decode_event.  A "[" found inside a string of BracketStrings leaves a slice
\* that starts with "[" followed by a bare letter, which is not JSON.
decode_event(text) ==
    IF ~starts_with(text, SOCKET_IO_EVENT_PREFIX) THEN Nothing
    ELSE LET json_start == find_bracket(text) IN
         IF json_start = NoIndex THEN Nothing
         ELSE IF text[json_start] # P("[") THEN Nothing
         ELSE LET r == from_str(SubSeq(text, json_start, Len(text))) IN
              IF /\ r.ok
                 /\ r.val.t = "arr"
                 /\ Len(r.val.items) >= 2
                 /\ r.val.items[1].t = "str"
              THEN Some(r.val.items[1].s, r.val.items[2])
              ELSE Nothing

\* ------------------------------------------------------------------ ffi
\* The number of PluginInit and PluginUnload calls followed.
MaxLifecycleCalls == 5

\* PluginState.client = None.
NoClient == 0

\* The ids of the ProxyClients the connection tasks can create.
ClientIds == 1..MaxLifecycleCalls

\* The plugin before the first PluginInit: INITIALIZED is false and PluginState
\* has its default.  `pending` holds the connection tasks spawned by
\* start_client that have not finished, `connected` the clients whose
\* `connected` flag is true.
PluginInitial ==
    [ INITIALIZED |-> FALSE, active |-> FALSE, client |-> NoClient,
      last_error |-> FALSE, pending |-> {}, connected |-> {},
      spawned |-> 0, calls |-> 0 ]

PluginOnly == UNCHANGED <<relay_vars, message, decoded, task_op, control, agent, server>>

\* PluginState::is_connected, which IsPluginConnected reports.
IsPluginConnected ==
    IF plugin.client # NoClient /\ plugin.client \in plugin.connected THEN 1 ELSE 0

\* PluginInit: INITIALIZED.swap(true); when it was false, active is set and
\* start_client spawns a connection task.
PluginInit ==
    /\ plugin.calls < MaxLifecycleCalls
    /\ plugin' = IF plugin.INITIALIZED
                 THEN [plugin EXCEPT !.calls = @ + 1]
                 ELSE [plugin EXCEPT !.calls = @ + 1,
                                     !.INITIALIZED = TRUE,
                                     !.active = TRUE,
                                     !.spawned = @ + 1,
                                     !.pending = @ \cup {plugin.spawned + 1}]
    /\ PluginOnly

\* The connection task: ProxyClient::connect succeeds and the client is stored.
\* The client stored before, if any, is dropped, which clears its flag.
ConnectTaskOk(k) ==
    /\ k \in plugin.pending
    /\ plugin' = [plugin EXCEPT !.pending = @ \ {k},
                                !.client = k,
                                !.connected = (@ \ {plugin.client}) \cup {k},
                                !.last_error = FALSE]
    /\ PluginOnly

\* The connection task: ProxyClient::connect fails and the error is stored.
ConnectTaskErr(k) ==
    /\ k \in plugin.pending
    /\ plugin' = [plugin EXCEPT !.pending = @ \ {k}, !.last_error = TRUE]
    /\ PluginOnly

\* A task of the stored client clears its `connected` flag: the proxy closed the
\* socket or a write failed.
ConnectionLost ==
    /\ plugin.client \in plugin.connected
    /\ plugin' = [plugin EXCEPT !.connected = @ \ {plugin.client}]
    /\ PluginOnly

\* PluginUnload: INITIALIZED.swap(false); when it was true, stop_client takes
\* the client out of the state, disconnects it and clears active.
PluginUnload ==
    /\ plugin.calls < MaxLifecycleCalls
    /\ plugin' = IF ~plugin.INITIALIZED
                 THEN [plugin EXCEPT !.calls = @ + 1]
                 ELSE [plugin EXCEPT !.calls = @ + 1,
                                     !.INITIALIZED = FALSE,
                                     !.active = FALSE,
                                     !.connected = @ \ {plugin.client},
                                     !.client = NoClient]
    /\ PluginOnly

\* ------------------------------------------------------------------ main
\* The relay process before main has bound its listener.
NotStarted ==
    [ listening |-> FALSE, port |-> 0, uptime |-> 0,
      response |-> [status |-> "none"] ]

\* ------------------------------------------------------------------ ProxyClient
\* The number of text frames the read task of the agent is followed for.
MaxHandled == 3

\* Value::get(key) on a JSON value: the member of an object, null when the
\* value is no object or has no such member.
Missing == [t |-> "missing", s |-> "", items |-> <<>>]

Get(v, key) ==
    IF v.t # "obj" THEN Missing
    ELSE LET at == { i \in 1..(Len(v.items) \div 2) : v.items[2 * i - 1] = JStr(key) }
         IN IF at = {} THEN Missing
            ELSE v.items[2 * (CHOOSE i \in at : \A j \in at : i <= j)]

\* data.get("senderId").and_then(as_str).unwrap_or("unknown")
SenderIdOf(data) ==
    IF Get(data, "senderId").t = "str" THEN Get(data, "senderId").s ELSE "unknown"

\* serde_json::from_value::<Command>: an object with a string `action`;
\* `options` has a default.
IsCommand(v) == v.t = "obj" /\ Get(v, "action").t = "str"

\* The actions execute_command knows (two of them stand for the list).
KnownActions == {"getPageCount", "openDocument"}

\* commands::execute_command: FAILURE with a message for an unknown action or
\* a handler that fails, SUCCESS with the result otherwise; js_ok is the outcome
\* of the handler.
execute_command(command, js_ok) ==
    IF Get(command, "action").s \in KnownActions /\ js_ok
    THEN [status |-> "SUCCESS", response |-> JObj(<<JStr("pageCount"), JNum("3")>>),
          message |-> JNull]
    ELSE [status |-> "FAILURE", response |-> JNull, message |-> JStr("error")]

\* The command_packet_response event built by handle_message.
CommandPacketResponseText(sender_id, response) ==
    encode_event_text("command_packet_response",
        JObj(<<JStr("packet"),
               JObj(<<JStr("senderId"), JStr(sender_id),
                      JStr("status"), JStr(response.status),
                      JStr("response"), response.response,
                      JStr("message"), response.message,
                      JStr("document"), JNull>>)>>))

NoFrames == <<>>

\* A handle_message that answers every command as sender "unknown".
handle_message_unknown_sender(text, js_ok) ==
    LET d == decode_event(text) IN
    IF d # Nothing /\ d.event = "command_packet" /\ IsCommand(Get(d.data, "command"))
    THEN << CommandPacketResponseText(
               "unknown", execute_command(Get(d.data, "command"), js_ok)) >>
    ELSE NoFrames

\* ProxyClient::handle_message: the frames it sends on response_tx.
handle_message(text, js_ok) ==
    IF ~starts_with(text, SOCKET_IO_EVENT_PREFIX) /\ text # <<Ch("2")>> THEN NoFrames
    ELSE LET d == decode_event(text) IN
         IF d = Nothing
         THEN IF text = <<Ch("2")>> THEN << <<Ch("3")>> >> ELSE NoFrames
         ELSE IF d.event = "status"
         THEN << encode_event_text("status",
                    JObj(<<JStr("application"), JStr("acrobat"),
                           JStr("status"), JStr("ready")>>)) >>
         ELSE IF d.event = "ping"
         THEN << encode_event_text("pong", JObj(<<>>)) >>
         ELSE IF d.event # "command_packet" THEN NoFrames
         ELSE IF Get(d.data, "command") = Missing THEN NoFrames
         ELSE IF ~IsCommand(Get(d.data, "command")) THEN NoFrames
         ELSE << CommandPacketResponseText(
                    SenderIdOf(d.data),
                    execute_command(Get(d.data, "command"), js_ok)) >>

\* ProxyClient after connect: the channel is empty, the write task holds its
\* receiver; `text` is the frame read last and `sends` what handle_message sent
\* for it.
AgentInit == [outbound |-> <<>>, writer |-> "running", handled |-> 0,
              text |-> <<>>, js_ok |-> TRUE, sends |-> NoFrames]

AgentOnly == UNCHANGED <<relay_vars, message, decoded, task_op, control, plugin, server>>

\* The command part of a command_packet as the relay forwards it.
CommandValue(action) == JObj(<<JStr("action"), JStr(action), JStr("options"), JObj(<<>>)>>)

\* The text frames the agent reads from the relay.
AgentTexts ==
    LET command_packets ==
            { JObj(<<JStr("senderId"), JStr("c1"), JStr("application"), JStr("acrobat"),
                     JStr("command"), CommandValue("getPageCount")>>),
              JObj(<<JStr("senderId"), JStr("c2"), JStr("application"), JStr("acrobat"),
                     JStr("command"), CommandValue("noSuchAction")>>),
              JObj(<<JStr("senderId"), JStr("c2"),
                     JStr("command"), JObj(<<JStr("action"), JStr("openDocument")>>)>>),
              JObj(<<JStr("command"), CommandValue("getPageCount")>>),
              JObj(<<JStr("senderId"), JNum("7"), JStr("command"), CommandValue("getPageCount")>>),
              JObj(<<JStr("senderId"), JStr("c1")>>),
              JObj(<<JStr("senderId"), JStr("c1"), JStr("command"), JStr("getPageCount")>>),
              JObj(<<JStr("senderId"), JStr("c1"),
                     JStr("command"), JObj(<<JStr("action"), JNum("1")>>)>>),
              JNull }
    IN { SOCKET_IO_EVENT_PREFIX \o Ser(JArr(<<JStr("command_packet"), data>>)) :
            data \in command_packets }
       \cup { SOCKET_IO_EVENT_PREFIX \o Ser(JArr(<<JStr(event), JObj(<<>>)>>)) :
                 event \in {"status", "ping", "registration_response"} }
       \cup { <<Ch("3")>>, <<Ch("4"), Ch("1")>>,
              SOCKET_IO_EVENT_PREFIX \o <<P("["), StrTok("command_packet")>> }

\* The read task hands a text frame to handle_message; a send on response_tx
\* puts the frame into the channel while the write task holds the receiver,
\* and fails otherwise.
HandleMessage(text, js_ok) ==
    /\ agent.handled < MaxHandled
    /\ agent' = [agent EXCEPT
                   !.handled = @ + 1,
                   !.text = text,
                   !.js_ok = js_ok,
                   !.sends = handle_message(text, js_ok),
                   !.outbound = IF agent.writer = "running"
                                THEN @ \o handle_message(text, js_ok)
                                ELSE @]
    /\ AgentOnly

\* The write task takes a frame from the channel and writes it to the socket.
AgentWrite ==
    /\ agent.writer = "running"
    /\ agent.outbound # <<>>
    /\ agent' = [agent EXCEPT !.outbound = Tail(@)]
    /\ AgentOnly

\* The write task ends, on a write error or on the shutdown signal; its
\* receiver is dropped with the frames left in the channel.
AgentWriteEnds ==
    /\ agent.writer = "running"
    /\ agent' = [agent EXCEPT !.writer = "ended", !.outbound = <<>>]
    /\ AgentOnly

\* ------------------------------------------------------------------ registry
\* AppState::send_to_client: false when the id is not in the primary table.
send_to_client_found(client_id) == client_id \in DOMAIN clients

\* A send_to_client that sends to every session of the primary table.
send_to_client_broadcast(ch, client_id, frame) ==
    IF client_id \in DOMAIN clients
    THEN [s \in Sessions |->
            IF s \in DOMAIN clients /\ RxAlive(s) THEN Append(ch[s], frame) ELSE ch[s]]
    ELSE ch

send_to_client(ch, client_id, frame) ==
    IF client_id \in DOMAIN clients THEN TxSend(ch, client_id, frame) ELSE ch

\* A send_to_application whose loop stops after the first id of the Vec.
SendTargets_first(app) ==
    IF app \in DOMAIN application_clients /\ application_clients[app] # <<>>
    THEN {id \in {Head(application_clients[app])} : id \in DOMAIN clients}
    ELSE {}

\* AppState::send_to_application: the ids of the application's Vec found in clients.
SendTargets(app) ==
    IF app \in DOMAIN application_clients
    THEN {id \in SeqToSet(application_clients[app]) : id \in DOMAIN clients}
    ELSE {}

send_to_application_found(app) == app \in DOMAIN application_clients

send_to_application(ch, packet) ==
    LET frame == encode_event("command_packet", packet)
        targets == SendTargets(packet.application)
    IN [s \in Sessions |->
          IF s \in targets /\ RxAlive(s) THEN Append(ch[s], frame) ELSE ch[s]]

\* AppState::has_application_client
has_application_client(app) ==
    /\ app \in DOMAIN application_clients
    /\ application_clients[app] # <<>>

\* AppState::get_status: StatusResponse.clients
get_status == [a \in DOMAIN application_clients |-> Len(application_clients[a])]

\* ------------------------------------------------------------------ handle_socket
\* The state after AppState::new, for one value of the auto-launch flag.
InitWith(flag) ==
    /\ clients = <<>>
    /\ application_clients = <<>>
    /\ auto_launch = flag
    /\ chan = [s \in Sessions |-> <<>>]
    /\ socket = [s \in Sessions |-> Closed]
    /\ conn = [s \in Sessions |-> "new"]
    /\ recv_task = [s \in Sessions |-> "none"]
    /\ send_task = [s \in Sessions |-> "none"]
    /\ rpc = [s \in Sessions |-> "idle"]
    /\ rarg = [s \in Sessions |-> NoArg]
    /\ uapp = [s \in Sessions |-> None]
    /\ unregister_calls = [s \in Sessions |-> 0]
    /\ events = 0
    /\ message = <<>>
    /\ decoded = NotDecoded
    /\ sent = [s \in Sessions |-> <<>>]
    /\ written = [s \in Sessions |-> <<>>]
    /\ task_op = [t \in Tasks |-> Idle]
    /\ control = ControlInit
    /\ agent = AgentInit
    /\ plugin = PluginInitial
    /\ server = NotStarted

\* The relay as started by default: Args.auto_launch has default_value_t = false.
Init == InitWith(FALSE)

\* The relay started with --auto-launch.
InitLaunch == InitWith(TRUE)

\* A handle_socket that writes the connect acknowledgement as its first frame.
Accept_connect_first(s) ==
    /\ conn[s] = "new"
    /\ \A t \in Sessions : t < s => conn[t] # "new"
    /\ clients' = MapInsert(clients, s, [application |-> None])
    /\ socket' = [socket EXCEPT ![s] = SOCKET_IO_CONNECT]
    /\ conn' = [conn EXCEPT ![s] = "handshake"]
    /\ UNCHANGED <<server, plugin, agent, control, task_op, message, decoded, sent, written,
                   application_clients, auto_launch, chan, recv_task, send_task,
                   rpc, rarg, uapp, unregister_calls, events>>

\* handle_socket up to the first handshake write: the channel is created, the
\* record is inserted and the open frame is written.  Session ids are fresh
\* uuids; the model hands them out in increasing order.
Accept(s) ==
    /\ conn[s] = "new"
    /\ \A t \in Sessions : t < s => conn[t] # "new"
    /\ clients' = MapInsert(clients, s, [application |-> None])
    /\ socket' = [socket EXCEPT ![s] = OpenFrame(s)]
    /\ conn' = [conn EXCEPT ![s] = "handshake"]
    /\ UNCHANGED <<server, plugin, agent, control, task_op, message, decoded, sent, written,
                   application_clients, auto_launch, chan, recv_task, send_task,
                   rpc, rarg, uapp, unregister_calls, events>>

\* The connect acknowledgement is written and the two tasks are spawned.
AcceptConnect(s) ==
    /\ conn[s] = "handshake"
    /\ socket' = [socket EXCEPT ![s] = SOCKET_IO_CONNECT]
    /\ conn' = [conn EXCEPT ![s] = "open"]
    /\ recv_task' = [recv_task EXCEPT ![s] = "running"]
    /\ send_task' = [send_task EXCEPT ![s] = "running"]
    /\ UNCHANGED <<server, plugin, agent, control, task_op, message, decoded, sent, written,
                   clients, application_clients, auto_launch, chan, rpc, rarg,
                   uapp, unregister_calls, events>>

\* A handshake write fails: handle_socket returns the error through `?`, which
\* drops the socket and the receiver and leaves the record in the table.
AcceptFails(s) ==
    /\ \/ /\ conn[s] = "new"
          /\ \A t \in Sessions : t < s => conn[t] # "new"
       \/ conn[s] = "handshake"
    /\ clients' = MapInsert(clients, s, [application |-> None])
    /\ socket' = [socket EXCEPT ![s] = Closed]
    /\ chan' = [chan EXCEPT ![s] = <<>>]
    /\ conn' = [conn EXCEPT ![s] = "failed"]
    /\ UNCHANGED <<server, plugin, agent, control, task_op, message, decoded, sent, written,
                   application_clients, auto_launch, recv_task,
                   send_task, rpc, rarg, uapp, unregister_calls, events>>

\* ------------------------------------------------------------------ recv_task
\* recv_task is at `receiver.next().await` and may take the next inbound frame.
Reading(s) == recv_task[s] = "running" /\ rpc[s] = "idle"

\* recv_task takes the next inbound frame of the socket.
Dispatch(s) ==
    /\ Reading(s)
    /\ events < MaxEvents
    /\ events' = events + 1

\* A register_client that cannot take the registry while some reader is inside
\* wait_for_application.
RecvRegister1_blocked(s, app) ==
    /\ Dispatch(s)
    /\ \A u \in Sessions : rpc[u] # "wait"
    /\ clients' = IF s \in DOMAIN clients
                  THEN [clients EXCEPT ![s].application = app]
                  ELSE clients
    /\ rpc' = [rpc EXCEPT ![s] = "reg2"]
    /\ rarg' = [rarg EXCEPT ![s] = [application |-> app, command |-> None]]
    /\ UNCHANGED <<server, plugin, agent, control, task_op, message, decoded, sent, written,
                   socket, application_clients, auto_launch, chan, conn,
                   recv_task, send_task, uapp, unregister_calls>>

\* "register", first registry operation of register_client: clients.get_mut.
RecvRegister1(s, app) ==
    /\ Dispatch(s)
    /\ clients' = IF s \in DOMAIN clients
                  THEN [clients EXCEPT ![s].application = app]
                  ELSE clients
    /\ rpc' = [rpc EXCEPT ![s] = "reg2"]
    /\ rarg' = [rarg EXCEPT ![s] = [application |-> app, command |-> None]]
    /\ UNCHANGED <<server, plugin, agent, control, task_op, message, decoded, sent, written,
                   socket, application_clients, auto_launch, chan, conn,
                   recv_task, send_task, uapp, unregister_calls>>

\* A register_client that only updates an entry that exists already.
RegisterEntry_noinsert(index, client_id, app) ==
    IF app \in DOMAIN index
    THEN IF client_id \in SeqToSet(index[app])
         THEN index
         ELSE [index EXCEPT ![app] = Append(@, client_id)]
    ELSE index

\* A register_client that pushes the id without the contains check.
RegisterEntry_push(index, client_id, app) ==
    IF app \in DOMAIN index
    THEN [index EXCEPT ![app] = Append(@, client_id)]
    ELSE MapInsert(index, app, <<client_id>>)

\* The Vec of an application after entry(app).and_modify(push if absent).or_insert.
RegisterEntry(index, client_id, app) ==
    IF app \in DOMAIN index
    THEN IF client_id \in SeqToSet(index[app])
         THEN index
         ELSE [index EXCEPT ![app] = Append(@, client_id)]
    ELSE MapInsert(index, app, <<client_id>>)

\* "register", second registry operation of register_client, and the
\* registration_response sent on the session's own channel.
RecvRegister2(s) ==
    /\ rpc[s] = "reg2"
    /\ application_clients' = RegisterEntry(application_clients, s, rarg[s].application)
    /\ chan' = TxSend(chan, s, encode_event("registration_response",
                                            RegistrationResponse(rarg[s].application)))
    /\ rpc' = [rpc EXCEPT ![s] = "idle"]
    /\ rarg' = [rarg EXCEPT ![s] = NoArg]
    /\ UNCHANGED <<server, plugin, agent, control, task_op, message, decoded, sent, written,
                   socket, clients, auto_launch, conn, recv_task, send_task,
                   uapp, unregister_calls, events>>

\* "command_packet" when send_to_application finds an entry for the application.
RecvCommandPacket(s, app, cmd) ==
    /\ Dispatch(s)
    /\ send_to_application_found(app)
    /\ chan' = send_to_application(chan, CommandPacketWithSender(s, app, cmd))
    /\ UNCHANGED <<server, plugin, agent, control, task_op, message, decoded, sent, written,
                   socket, clients, application_clients, auto_launch, conn,
                   recv_task, send_task, rpc, rarg, uapp, unregister_calls>>

\* A router whose failure response never carries the auto-launch note.
RecvCommandPacketNoTarget_nonote(s, app, cmd) ==
    /\ Dispatch(s)
    /\ ~send_to_application_found(app)
    /\ chan' = send_to_client(chan, s, encode_event("packet_response",
                                                    FailurePacket(s, app, None)))
    /\ UNCHANGED <<server, plugin, agent, control, task_op, message, decoded, sent, written,
                   socket, clients, application_clients, auto_launch, conn,
                   recv_task, send_task, rpc, rarg, uapp, unregister_calls>>

\* "command_packet" without an entry, when auto-launch is off or
\* try_launch_application returns false: the FAILURE response to the originator.
RecvCommandPacketNoTarget(s, app, cmd) ==
    /\ Dispatch(s)
    /\ ~send_to_application_found(app)
    /\ chan' = send_to_client(chan, s, encode_event("packet_response",
                 FailurePacket(s, app, IF auto_launch THEN "no executable found" ELSE None)))
    /\ UNCHANGED <<server, plugin, agent, control, task_op, message, decoded, sent, written,
                   socket, clients, application_clients, auto_launch, conn,
                   recv_task, send_task, rpc, rarg, uapp, unregister_calls>>

\* A router that tries the launch whatever the configuration says.
RecvCommandPacketLaunch_always(s, app, cmd) ==
    /\ Dispatch(s)
    /\ ~send_to_application_found(app)
    /\ rpc' = [rpc EXCEPT ![s] = "wait"]
    /\ rarg' = [rarg EXCEPT ![s] = [application |-> app, command |-> cmd]]
    /\ UNCHANGED <<server, plugin, agent, control, task_op, message, decoded, sent, written,
                   socket, clients, application_clients, auto_launch, chan, conn,
                   recv_task, send_task, uapp, unregister_calls>>

\* "command_packet" without an entry, auto-launch on and a process spawned:
\* handle_event enters wait_for_application.
RecvCommandPacketLaunch(s, app, cmd) ==
    /\ Dispatch(s)
    /\ ~send_to_application_found(app)
    /\ auto_launch
    /\ rpc' = [rpc EXCEPT ![s] = "wait"]
    /\ rarg' = [rarg EXCEPT ![s] = [application |-> app, command |-> cmd]]
    /\ UNCHANGED <<server, plugin, agent, control, task_op, message, decoded, sent, written,
                   socket, clients, application_clients, auto_launch, chan, conn,
                   recv_task, send_task, uapp, unregister_calls>>

\* wait_for_application: a poll finds a session registered and returns true.
WaitPoll(s) ==
    /\ rpc[s] = "wait"
    /\ has_application_client(rarg[s].application)
    /\ rpc' = [rpc EXCEPT ![s] = "resend"]
    /\ UNCHANGED <<server, plugin, agent, control, task_op, message, decoded, sent, written,
                   socket, clients, application_clients, auto_launch, chan, conn,
                   recv_task, send_task, rarg, uapp, unregister_calls, events>>

\* The FAILURE response with the timeout note.
TimeoutFailure(s) ==
    chan' = send_to_client(chan, s, encode_event("packet_response",
               FailurePacket(s, rarg[s].application, "no client registered within timeout")))

\* After a successful wait: send_to_application again, and the failure
\* response with the timeout note when it returns false.
Resend(s) ==
    /\ rpc[s] = "resend"
    /\ IF send_to_application_found(rarg[s].application)
       THEN chan' = send_to_application(chan,
                       CommandPacketWithSender(s, rarg[s].application, rarg[s].command))
       ELSE TimeoutFailure(s)
    /\ rpc' = [rpc EXCEPT ![s] = "idle"]
    /\ rarg' = [rarg EXCEPT ![s] = NoArg]
    /\ UNCHANGED <<server, plugin, agent, control, task_op, message, decoded, sent, written,
                   socket, clients, application_clients, auto_launch, conn,
                   recv_task, send_task, uapp, unregister_calls, events>>

\* A wait_for_application whose timeout ends the handling without a response.
WaitTimeout_silent(s) ==
    /\ rpc[s] = "wait"
    /\ rpc' = [rpc EXCEPT ![s] = "idle"]
    /\ rarg' = [rarg EXCEPT ![s] = NoArg]
    /\ UNCHANGED <<server, plugin, agent, control, task_op, message, decoded, sent, written,
                   socket, clients, application_clients, auto_launch, chan, conn,
                   recv_task, send_task, uapp, unregister_calls, events>>

\* wait_for_application: the timeout elapses and it returns false.
WaitTimeout(s) ==
    /\ rpc[s] = "wait"
    /\ TimeoutFailure(s)
    /\ rpc' = [rpc EXCEPT ![s] = "idle"]
    /\ rarg' = [rarg EXCEPT ![s] = NoArg]
    /\ UNCHANGED <<server, plugin, agent, control, task_op, message, decoded, sent, written,
                   socket, clients, application_clients, auto_launch, conn,
                   recv_task, send_task, uapp, unregister_calls, events>>

\* "command_packet_response": the packet goes to the session named by senderId.
RecvCommandPacketResponse(s, packet) ==
    /\ Dispatch(s)
    /\ packet.senderId # NoSender
    /\ chan' = send_to_client(chan, packet.senderId, encode_event("packet_response", packet))
    /\ UNCHANGED <<server, plugin, agent, control, task_op, message, decoded, sent, written,
                   socket, clients, application_clients, auto_launch, conn,
                   recv_task, send_task, rpc, rarg, uapp, unregister_calls>>

\* A reader that takes a ping and sends no pong.
RecvPing_nopong(s) ==
    /\ Dispatch(s)
    /\ UNCHANGED <<server, plugin, agent, control, task_op, message, decoded, sent, written,
                   socket, clients, application_clients, auto_launch, chan, conn,
                   recv_task, send_task, rpc, rarg, uapp, unregister_calls>>

\* The text frame "2" or a WebSocket ping: a pong on the session's own channel.
RecvPing(s) ==
    /\ Dispatch(s)
    /\ chan' = TxSend(chan, s, ENGINE_PONG)
    /\ UNCHANGED <<server, plugin, agent, control, task_op, message, decoded, sent, written,
                   socket, clients, application_clients, auto_launch, conn,
                   recv_task, send_task, rpc, rarg, uapp, unregister_calls>>

\* A router that answers a response without senderId on the channel of its sender.
RecvCommandPacketResponseNoSender_echo(s, packet) ==
    /\ Dispatch(s)
    /\ packet.senderId = NoSender
    /\ chan' = send_to_client(chan, s, encode_event("packet_response", packet))
    /\ UNCHANGED <<server, plugin, agent, control, task_op, message, decoded, sent, written,
                   socket, clients, application_clients, auto_launch, conn,
                   recv_task, send_task, rpc, rarg, uapp, unregister_calls>>

\* "command_packet_response" whose packet has no string senderId: a warning.
RecvCommandPacketResponseNoSender(s, packet) ==
    /\ Dispatch(s)
    /\ packet.senderId = NoSender
    /\ UNCHANGED <<server, plugin, agent, control, task_op, message, decoded, sent, written,
                   socket, clients, application_clients, auto_launch, chan, conn,
                   recv_task, send_task, rpc, rarg, uapp, unregister_calls>>

\* The event names handle_event matches, and an event name it does not.
KnownEvents == {"register", "command_packet", "command_packet_response"}

UnknownEvents == {"status_request"}

\* A router that ends the reader on an event it does not know.
RecvUnknownEvent_close(s, event) ==
    /\ Dispatch(s)
    /\ event \notin KnownEvents
    /\ recv_task' = [recv_task EXCEPT ![s] = "ended"]
    /\ UNCHANGED <<server, plugin, agent, control, task_op, message, decoded, sent, written,
                   socket, clients, application_clients, auto_launch, chan, conn,
                   send_task, rpc, rarg, uapp, unregister_calls>>

\* An event matched by the `_` arm of handle_event: a warning.
RecvUnknownEvent(s, event) ==
    /\ Dispatch(s)
    /\ event \notin KnownEvents
    /\ UNCHANGED <<server, plugin, agent, control, task_op, message, decoded, sent, written,
                   socket, clients, application_clients, auto_launch, chan, conn,
                   recv_task, send_task, rpc, rarg, uapp, unregister_calls>>

\* A router that reports a malformed payload to the sender with a FAILURE response.
RecvMalformedPayload_reply(s, event) ==
    /\ Dispatch(s)
    /\ event \in KnownEvents
    /\ chan' = send_to_client(chan, s, encode_event("packet_response",
                                                    FailurePacket(s, None, event)))
    /\ UNCHANGED <<server, plugin, agent, control, task_op, message, decoded, sent, written,
                   socket, clients, application_clients, auto_launch, conn,
                   recv_task, send_task, rpc, rarg, uapp, unregister_calls>>

\* A known event whose payload fails serde_json::from_value: the `if let Ok`
\* has no else branch.
RecvMalformedPayload(s, event) ==
    /\ Dispatch(s)
    /\ event \in KnownEvents
    /\ UNCHANGED <<server, plugin, agent, control, task_op, message, decoded, sent, written,
                   socket, clients, application_clients, auto_launch, chan, conn,
                   recv_task, send_task, rpc, rarg, uapp, unregister_calls>>

\* A text frame for which decode_event returns None: a warning.
RecvUndecodable(s) ==
    /\ Dispatch(s)
    /\ UNCHANGED <<server, plugin, agent, control, task_op, message, decoded, sent, written,
                   socket, clients, application_clients, auto_launch, chan, conn,
                   recv_task, send_task, rpc, rarg, uapp, unregister_calls>>

\* Frames the reader skips: connect and disconnect control frames, and the
\* WebSocket messages of the `_` arm (binary, pong).
RecvIgnored(s) ==
    /\ Dispatch(s)
    /\ UNCHANGED <<server, plugin, agent, control, task_op, message, decoded, sent, written,
                   socket, clients, application_clients, auto_launch, chan, conn,
                   recv_task, send_task, rpc, rarg, uapp, unregister_calls>>

\* The reader loop ends: the peer closed, the socket failed, or a close frame came.
RecvEnds(s) ==
    /\ Reading(s)
    /\ recv_task' = [recv_task EXCEPT ![s] = "ended"]
    /\ UNCHANGED <<server, plugin, agent, control, task_op, message, decoded, sent, written,
                   socket, clients, application_clients, auto_launch, chan, conn,
                   send_task, rpc, rarg, uapp, unregister_calls, events>>

\* ------------------------------------------------------------------ send_task
\* A send_task that takes the oldest frame and drops it instead of writing it.
SendTaskWrite_drop(s) ==
    /\ send_task[s] = "running"
    /\ chan[s] # <<>>
    /\ chan' = [chan EXCEPT ![s] = Tail(@)]
    /\ UNCHANGED <<server, plugin, agent, control, task_op, message, decoded, sent, written,
                   socket, clients, application_clients, auto_launch, conn,
                   recv_task, send_task, rpc, rarg, uapp, unregister_calls, events>>

\* A send_task that takes the newest frame of the channel instead of the oldest.
SendTaskWrite_newest(s) ==
    /\ send_task[s] = "running"
    /\ chan[s] # <<>>
    /\ socket' = [socket EXCEPT ![s] = chan[s][Len(chan[s])]]
    /\ chan' = [chan EXCEPT ![s] = SubSeq(@, 1, Len(@) - 1)]
    /\ UNCHANGED <<server, plugin, agent, control, task_op, message, decoded, sent, written,
                   clients, application_clients, auto_launch, conn,
                   recv_task, send_task, rpc, rarg, uapp, unregister_calls, events>>

\* send_task takes the oldest frame of the channel and writes it to the socket.
SendTaskWrite(s) ==
    /\ send_task[s] = "running"
    /\ chan[s] # <<>>
    /\ socket' = [socket EXCEPT ![s] = Head(chan[s])]
    /\ chan' = [chan EXCEPT ![s] = Tail(@)]
    /\ UNCHANGED <<server, plugin, agent, control, task_op, message, decoded, sent, written,
                   clients, application_clients, auto_launch, conn,
                   recv_task, send_task, rpc, rarg, uapp, unregister_calls, events>>

\* The write of the oldest frame fails: send_task breaks out of its loop, and the
\* receiver it owns is dropped, which releases the frames still in the channel.
SendEnds(s) ==
    /\ send_task[s] = "running"
    /\ chan[s] # <<>>
    /\ send_task' = [send_task EXCEPT ![s] = "ended"]
    /\ chan' = [chan EXCEPT ![s] = <<>>]
    /\ UNCHANGED <<server, plugin, agent, control, task_op, message, decoded, sent, written,
                   socket, clients, application_clients, auto_launch, conn,
                   recv_task, rpc, rarg, uapp, unregister_calls, events>>

\* ------------------------------------------------------------------ cleanup
\* A handle_socket whose select! arm for send_task returns without the cleanup.
SelectAbort_skip(s) ==
    /\ conn[s] = "open"
    /\ recv_task[s] = "ended" \/ send_task[s] = "ended"
    /\ recv_task' = [recv_task EXCEPT ![s] = "stopped"]
    /\ send_task' = [send_task EXCEPT ![s] = "stopped"]
    /\ rpc' = [rpc EXCEPT ![s] = IF @ = "wait" THEN "idle" ELSE @]
    /\ rarg' = [rarg EXCEPT ![s] = IF rpc[s] = "wait" THEN NoArg ELSE @]
    /\ chan' = [chan EXCEPT ![s] = <<>>]
    /\ socket' = [socket EXCEPT ![s] = Closed]
    /\ unregister_calls' =
          [unregister_calls EXCEPT ![s] = IF send_task[s] = "ended" THEN @ ELSE @ + 1]
    /\ clients' = IF send_task[s] = "ended" THEN clients ELSE MapRemove(clients, s)
    /\ IF send_task[s] # "ended" /\ s \in DOMAIN clients /\ clients[s].application # None
       THEN /\ conn' = [conn EXCEPT ![s] = "unreg2"]
            /\ uapp' = [uapp EXCEPT ![s] = clients[s].application]
       ELSE /\ conn' = [conn EXCEPT ![s] = "done"]
            /\ uapp' = uapp
    /\ UNCHANGED <<server, plugin, agent, control, task_op, message, decoded, sent, written,
                   application_clients, auto_launch, events>>

\* tokio::select! over the two tasks, and the first registry operation of
\* unregister_client (clients.remove), which follows without an await.  One task
\* has ended and the other is aborted.  A reader suspended in the auto-launch
\* sleep is cancelled there; a reader inside synchronous code finishes that code
\* first.  The receiver goes with send_task, which releases the frames left in
\* the channel.
SelectAbort(s) ==
    /\ conn[s] = "open"
    /\ recv_task[s] = "ended" \/ send_task[s] = "ended"
    /\ recv_task' = [recv_task EXCEPT ![s] = "stopped"]
    /\ send_task' = [send_task EXCEPT ![s] = "stopped"]
    /\ rpc' = [rpc EXCEPT ![s] = IF @ = "wait" THEN "idle" ELSE @]
    /\ rarg' = [rarg EXCEPT ![s] = IF rpc[s] = "wait" THEN NoArg ELSE @]
    /\ chan' = [chan EXCEPT ![s] = <<>>]
    /\ socket' = [socket EXCEPT ![s] = Closed]
    /\ unregister_calls' = [unregister_calls EXCEPT ![s] = @ + 1]
    /\ clients' = MapRemove(clients, s)
    /\ IF s \in DOMAIN clients /\ clients[s].application # None
       THEN /\ conn' = [conn EXCEPT ![s] = "unreg2"]
            /\ uapp' = [uapp EXCEPT ![s] = clients[s].application]
       ELSE /\ conn' = [conn EXCEPT ![s] = "done"]
            /\ uapp' = uapp
    /\ UNCHANGED <<server, plugin, agent, control, task_op, message, decoded, sent, written,
                   application_clients, auto_launch, events>>

Retain(q, client_id) == SelectSeq(q, LAMBDA id : id # client_id)

\* unregister_client, second registry operation: get_mut(app), retain, is_empty,
\* and the release of the entry's lock.
Unregister2(s) ==
    /\ conn[s] = "unreg2"
    /\ IF uapp[s] \in DOMAIN application_clients
       THEN /\ application_clients' =
                 [application_clients EXCEPT ![uapp[s]] = Retain(@, s)]
            /\ conn' = [conn EXCEPT ![s] =
                 IF Retain(application_clients[uapp[s]], s) = <<>> THEN "unreg3" ELSE "done"]
       ELSE /\ application_clients' = application_clients
            /\ conn' = [conn EXCEPT ![s] = "done"]
    /\ uapp' = [uapp EXCEPT ![s] = IF conn'[s] = "done" THEN None ELSE @]
    /\ UNCHANGED <<server, plugin, agent, control, task_op, message, decoded, sent, written,
                   socket, clients, auto_launch, chan, recv_task, send_task,
                   rpc, rarg, unregister_calls, events>>

\* unregister_client, third registry operation: application_clients.remove(app).
Unregister3(s) ==
    /\ conn[s] = "unreg3"
    /\ application_clients' = MapRemove(application_clients, uapp[s])
    /\ conn' = [conn EXCEPT ![s] = "done"]
    /\ uapp' = [uapp EXCEPT ![s] = None]
    /\ UNCHANGED <<server, plugin, agent, control, task_op, message, decoded, sent, written,
                   socket, clients, auto_launch, chan, recv_task, send_task,
                   rpc, rarg, unregister_calls, events>>

\* ------------------------------------------------------------------ specification
\* The steps of one connection that do not depend on auto-launch.
Step(s) ==
    \/ Accept(s)
    \/ AcceptConnect(s)
    \/ AcceptFails(s)
    \/ \E app \in Apps : RecvRegister1(s, app)
    \/ RecvRegister2(s)
    \/ \E app \in Apps, cmd \in Commands : RecvCommandPacket(s, app, cmd)
    \/ \E app \in Apps, cmd \in Commands : RecvCommandPacketNoTarget(s, app, cmd)
    \/ \E packet \in Packets : RecvCommandPacketResponse(s, packet)
    \/ \E packet \in Packets : RecvCommandPacketResponseNoSender(s, packet)
    \/ \E event \in UnknownEvents : RecvUnknownEvent(s, event)
    \/ \E event \in KnownEvents : RecvMalformedPayload(s, event)
    \/ RecvUndecodable(s)
    \/ RecvPing(s)
    \/ RecvIgnored(s)
    \/ RecvEnds(s)
    \/ SendTaskWrite(s)
    \/ SendEnds(s)
    \/ SelectAbort(s)
    \/ Unregister2(s)
    \/ Unregister3(s)

\* The steps of handle_event that exist only with auto-launch on.
LaunchStep(s) ==
    \/ \E app \in Apps, cmd \in Commands : RecvCommandPacketLaunch(s, app, cmd)
    \/ WaitPoll(s)
    \/ Resend(s)
    \/ WaitTimeout(s)

Next == \E s \in Sessions : Step(s)

NextLaunch == \E s \in Sessions : Step(s) \/ LaunchStep(s)

Spec == Init /\ [][Next]_vars

SpecLaunch == InitLaunch /\ [][NextLaunch]_vars

\* ------------------------------------------------------------------ socket_io inputs
\* Event names and payloads given to encode_event.
CodecEvents == {"register", "command_packet", "a[b"}

CodecPayloads ==
    { JNull, JNum("3"), JStr("x"), JStr("a[b"),
      JArr(<<>>), JArr(<<JNum("1"), JStr("x")>>), JArr(<<JArr(<<>>)>>),
      JObj(<<>>), JObj(<<JStr("application"), JStr("acrobat")>>),
      JObj(<<JStr("packet"),
             JObj(<<JStr("senderId"), JStr("c1"), JStr("status"), JStr("SUCCESS")>>)>>) }

\* The array [event, payload] of an event frame.
EventArray(event, data) == JArr(<<JStr(event), data>>)

\* The payload of the handshake open frame.
OpenPayload ==
    JObj(<<JStr("sid"), JStr("c1"), JStr("upgrades"), JArr(<<>>),
           JStr("pingInterval"), JNum("25000")>>)

\* JSON values that are not the array of an event frame.
OtherValues ==
    { JArr(<<>>), JArr(<<JStr("register")>>),
      JArr(<<JStr("register"), JObj(<<JStr("application"), JStr("acrobat")>>), JStr("x")>>),
      JArr(<<JNum("1"), JNull>>), JArr(<<JNull, JStr("register")>>),
      JArr(<<JArr(<<>>), JNull>>),
      JObj(<<JStr("register"), JNull>>),
      JObj(<<JStr("k"), JArr(<<JStr("register"), JNull>>)>>),
      JStr("register"), JStr("a[b"), JNum("1"), JNull, OpenPayload }

TopValues ==
    {EventArray(event, data) : event \in CodecEvents, data \in CodecPayloads}
    \cup OtherValues

\* Token sequences that are not one JSON value.
InvalidJson ==
    { <<>>, <<P("[")>>, <<P("["), StrTok("register")>>,
      <<P("["), StrTok("register"), P(","), LitTok("null"), P("]"), P("]")>>,
      <<P("["), StrTok("register"), P(","), P("]")>> }

\* What stands between the prefix and the JSON text: nothing or a namespace.
Namespaces ==
    { <<>>, <<Ch("/"), Ch("u"), Ch("x"), Ch("p"), Ch(",")>>, <<Ch("/"), Ch(",")>>,
      <<Ch("/"), P("["), Ch(",")>> }

NamespacesWithoutBracket == {ns \in Namespaces : \A i \in 1..Len(ns) : ~HasBracket(ns[i])}

\* The first characters of a frame: the event prefix and the other packet types.
Prefixes ==
    { SOCKET_IO_EVENT_PREFIX, <<Ch("0")>>, <<Ch("2")>>, <<Ch("3")>>,
      <<Ch("4"), Ch("0")>>, <<Ch("4"), Ch("1")>>, <<Ch("4")>>, <<Ch("4"), Ch("3")>>, <<>> }

InboundTexts ==
    { prefix \o ns \o json :
        prefix \in Prefixes, ns \in Namespaces,
        json \in {Ser(v) : v \in TopValues} \cup InvalidJson }

\* A text frame arrives and is about to be decoded.
Receive(text) ==
    /\ message' = text
    /\ decoded' = NotDecoded
    /\ UNCHANGED <<relay_vars, task_op, control, agent, plugin, server>>

\* encode_event builds the frame that is about to be decoded.
Encode(event, data) ==
    /\ message' = encode_event_text(event, data)
    /\ decoded' = NotDecoded
    /\ UNCHANGED <<relay_vars, task_op, control, agent, plugin, server>>

\* decode_event runs on the frame.
Decode ==
    /\ decoded = NotDecoded
    /\ decoded' = decode_event(message)
    /\ UNCHANGED <<message, relay_vars, task_op, control, agent, plugin, server>>

CodecNext ==
    \/ \E text \in InboundTexts : Receive(text)
    \/ \E event \in CodecEvents, data \in CodecPayloads : Encode(event, data)
    \/ Decode

CodecSpec == Init /\ [][CodecNext]_vars

\* ------------------------------------------------------------------ the channel
\* The number of frames a session's broadcast channel retains, which is 100 in
\* handle_socket; the channel is modelled with a small capacity so that more
\* frames than it retains can be pending.
ChannelCapacity == 2

\* The number of tx.send calls followed per channel.
MaxSent == ChannelCapacity + 2

\* Frames that tasks put into a channel.
ChannelFrames ==
    { ENGINE_PONG,
      encode_event("packet_response", FailurePacket(1, "acrobat", None)) }

\* The receiver of the channel has missed frames: more frames are pending than
\* the channel retains, so the next rx.recv() returns RecvError::Lagged.
Lagged(s) == Len(sent[s]) - Len(written[s]) > Len(chan[s])

\* tx.send(frame) by any task holding a sender of the channel of session s: the
\* frame is stored, and overwrites the oldest frame when the channel is full.
ChannelSend(s, frame) ==
    /\ RxAlive(s)
    /\ Len(sent[s]) < MaxSent
    /\ sent' = [sent EXCEPT ![s] = Append(@, frame)]
    /\ chan' = [chan EXCEPT ![s] =
                  IF Len(@) < ChannelCapacity
                  THEN Append(@, frame)
                  ELSE Append(Tail(@), frame)]
    /\ UNCHANGED <<server, plugin, agent, control, task_op, message, decoded, written,
                   socket, clients, application_clients, auto_launch, conn,
                   recv_task, send_task, rpc, rarg, uapp, unregister_calls, events>>

\* send_task: rx.recv() returns Ok(frame) and the write to the socket succeeds.
WriterRecv(s) ==
    /\ send_task[s] = "running"
    /\ ~Lagged(s)
    /\ chan[s] # <<>>
    /\ socket' = [socket EXCEPT ![s] = Head(chan[s])]
    /\ written' = [written EXCEPT ![s] = Append(@, Head(chan[s]))]
    /\ chan' = [chan EXCEPT ![s] = Tail(@)]
    /\ UNCHANGED <<server, plugin, agent, control, task_op, message, decoded, sent,
                   clients, application_clients, auto_launch, conn,
                   recv_task, send_task, rpc, rarg, uapp, unregister_calls, events>>

\* send_task: rx.recv() returns Ok(frame) and the write to the socket fails.
WriterWriteFails(s) ==
    /\ ~Lagged(s)
    /\ SendEnds(s)

\* A send_task that goes on with the oldest retained frame after Lagged.
WriterLagged_resume(s) ==
    /\ send_task[s] = "running"
    /\ Lagged(s)
    /\ socket' = [socket EXCEPT ![s] = Head(chan[s])]
    /\ written' = [written EXCEPT ![s] = Append(@, Head(chan[s]))]
    /\ chan' = [chan EXCEPT ![s] = Tail(@)]
    /\ UNCHANGED <<server, plugin, agent, control, task_op, message, decoded, sent,
                   clients, application_clients, auto_launch, conn,
                   recv_task, send_task, rpc, rarg, uapp, unregister_calls, events>>

\* send_task: rx.recv() returns Err(Lagged), `while let Ok(..)` ends the loop
\* and the task; the receiver is dropped with it.
WriterLagged(s) ==
    /\ send_task[s] = "running"
    /\ Lagged(s)
    /\ send_task' = [send_task EXCEPT ![s] = "ended"]
    /\ chan' = [chan EXCEPT ![s] = <<>>]
    /\ UNCHANGED <<server, plugin, agent, control, task_op, message, decoded, sent, written,
                   socket, clients, application_clients, auto_launch, conn,
                   recv_task, rpc, rarg, uapp, unregister_calls, events>>

\* The session whose channel is followed; what other sessions do reaches the
\* channel as tx.send calls.
ChannelSessions == {1}

\* One connection seen from its channel: accepted, fed by tx.send, drained by
\* send_task, and torn down by the select! when a task has ended.
ChannelNext ==
    \E s \in ChannelSessions :
        \/ Accept(s)
        \/ AcceptConnect(s)
        \/ \E frame \in ChannelFrames : ChannelSend(s, frame)
        \/ WriterRecv(s)
        \/ WriterWriteFails(s)
        \/ WriterLagged(s)
        \/ RecvEnds(s)
        \/ SelectAbort(s)

ChannelSpec == Init /\ [][ChannelNext]_vars

\* The channel under the scheduling tokio gives: a send_task whose recv has a
\* result is polled, and so is a handle_socket whose select! has a finished task.
FairChannelSpec ==
    ChannelSpec
    /\ \A s \in ChannelSessions :
          WF_vars(WriterLagged(s)) /\ WF_vars(SelectAbort(s))

\* ------------------------------------------------------------------ text frames
ENGINE_PING == <<Ch("2")>>

SOCKET_IO_CONNECT_TEXT == <<Ch("4"), Ch("0")>>

SOCKET_IO_DISCONNECT == <<Ch("4"), Ch("1")>>

\* socket_io::is_connect
is_connect(text) ==
    text = SOCKET_IO_CONNECT_TEXT \/ starts_with(text, SOCKET_IO_CONNECT_TEXT \o <<Ch("/")>>)

\* socket_io::is_disconnect
is_disconnect(text) ==
    text = SOCKET_IO_DISCONNECT \/ starts_with(text, SOCKET_IO_DISCONNECT)

\* Text frames that are not events: the ping, connect and disconnect control
\* frames with and without a namespace or a trailing event array, and frames
\* that decode_event rejects.
ReaderTexts ==
    LET ns == <<Ch("/"), Ch("u"), Ch("x"), Ch("p"), Ch(",")>>
        array == Ser(EventArray("register", JObj(<<JStr("application"), JStr("acrobat")>>)))
    IN { ENGINE_PING,
         SOCKET_IO_CONNECT_TEXT, SOCKET_IO_CONNECT_TEXT \o ns,
         SOCKET_IO_CONNECT_TEXT \o ns \o array,
         SOCKET_IO_DISCONNECT, SOCKET_IO_DISCONNECT \o ns,
         SOCKET_IO_DISCONNECT \o array,
         SOCKET_IO_CONNECT_TEXT \o array, <<Ch("3")>>,
         SOCKET_IO_EVENT_PREFIX \o <<P("["), StrTok("register"), P("]")>> }

\* A reader that takes a disconnect control frame as the end of the connection.
ReadText_disconnect_closes(s, text) ==
    /\ Dispatch(s)
    /\ message' = text
    /\ IF text = ENGINE_PING
       THEN /\ chan' = TxSend(chan, s, ENGINE_PONG)
            /\ UNCHANGED <<decoded, recv_task>>
       ELSE IF is_disconnect(text)
       THEN /\ recv_task' = [recv_task EXCEPT ![s] = "ended"]
            /\ UNCHANGED <<chan, decoded>>
       ELSE IF is_connect(text)
       THEN UNCHANGED <<chan, decoded, recv_task>>
       ELSE /\ decode_event(text) = Nothing
            /\ decoded' = Nothing
            /\ UNCHANGED <<chan, recv_task>>
    /\ UNCHANGED <<server, plugin, agent, control, task_op, sent, written,
                   socket, clients, application_clients, auto_launch, conn,
                   send_task, rpc, rarg, uapp, unregister_calls>>

\* recv_task on a text frame that is not an event: the ping is answered with a
\* pong, a connect or disconnect control frame is skipped, and a frame for which
\* decode_event returns None is logged.
ReadText(s, text) ==
    /\ Dispatch(s)
    /\ message' = text
    /\ IF text = ENGINE_PING
       THEN /\ chan' = TxSend(chan, s, ENGINE_PONG)
            /\ UNCHANGED <<decoded, recv_task>>
       ELSE IF is_connect(text) \/ is_disconnect(text)
       THEN UNCHANGED <<chan, decoded, recv_task>>
       ELSE /\ decode_event(text) = Nothing
            /\ decoded' = Nothing
            /\ UNCHANGED <<chan, recv_task>>
    /\ UNCHANGED <<server, plugin, agent, control, task_op, sent, written,
                   socket, clients, application_clients, auto_launch, conn,
                   send_task, rpc, rarg, uapp, unregister_calls>>

\* The relay with the text of the frames that are not events.
ReaderNext ==
    \E s \in 1..NumLaunchSessions :
        \/ Step(s)
        \/ \E text \in ReaderTexts : ReadText(s, text)

ReaderSpec == Init /\ [][ReaderNext]_vars

\* One AcrobatClient and the frames the relay sends to it.
ControlNext ==
    \/ SendCommand
    \/ \E c \in Calls, status \in {"SUCCESS", "FAILURE"} : ResponseArrives(c, status)
    \/ OtherFrameArrives
    \/ ReadFrame
    \/ CommandTimeout

ControlSpec == Init /\ [][ControlNext]_vars

\* The agent: its read task, and its write task.
AgentNext ==
    \/ \E text \in AgentTexts, js_ok \in BOOLEAN : HandleMessage(text, js_ok)
    \/ AgentWrite
    \/ AgentWriteEnds

AgentSpec == Init /\ [][AgentNext]_vars

\* ------------------------------------------------------------------ /status
\* Values of Args.port (u16): the default and others, the largest included.
DefaultPort == 3001
ConfiguredPorts == {80, DefaultPort, 3002, 65535}

\* Seconds of uptime followed.
MaxUptime == 6

ServerOnly ==
    UNCHANGED <<relay_vars, message, decoded, task_op, control, agent, plugin>>

\* main: Args::parse gives the port, the listener is bound to it and the
\* router is served.
Main(port) ==
    /\ ~server.listening
    /\ server' = [server EXCEPT !.listening = TRUE, !.port = port]
    /\ ServerOnly

\* start_time.elapsed().as_secs() grows while the relay runs.
SecondPasses ==
    /\ server.listening
    /\ server.uptime < MaxUptime
    /\ server' = [server EXCEPT !.uptime = @ + 1]
    /\ ServerOnly

\* AppState::get_status: the snapshot it builds.
StatusResponse ==
    [ status |-> "running", port |-> 3001, clients |-> get_status,
      uptime |-> server.uptime ]

\* status_handler: GET /status replies with the snapshot after setting its port.
status_handler ==
    /\ server.listening
    /\ server' = [server EXCEPT !.response = [StatusResponse EXCEPT !.port = 3001]]
    /\ ServerOnly

StatusNext ==
    \/ \E port \in ConfiguredPorts : Main(port)
    \/ SecondPasses
    \/ status_handler

StatusSpec == Init /\ [][StatusNext]_vars

\* The lifecycle calls of Acrobat and the connection tasks of the plugin.
PluginNext ==
    \/ PluginInit
    \/ PluginUnload
    \/ \E k \in ClientIds : ConnectTaskOk(k)
    \/ \E k \in ClientIds : ConnectTaskErr(k)
    \/ ConnectionLost

PluginSpec == Init /\ [][PluginNext]_vars

\* Tasks calling the registry operations in any interleaving of their lock steps.
LockNext ==
    \E t \in Tasks :
        \/ \E op \in DOMAIN OperationPaths : StartOp(t, op)
        \/ LockAcquire(t)
        \/ LockRelease(t)

LockSpec == Init /\ [][LockNext]_vars

\* The relay started with either value of --auto-launch.
InitAnyConfig == \E flag \in BOOLEAN : InitWith(flag)

LaunchSessions == 1..NumLaunchSessions

NextAnyConfig == \E s \in LaunchSessions : Step(s) \/ LaunchStep(s)

SpecAnyConfig == InitAnyConfig /\ [][NextAnyConfig]_vars

\* The same relay under the scheduling tokio gives: a reader inside the
\* auto-launch poll is woken by its sleep timer and polled again.
FairSpecAnyConfig ==
    SpecAnyConfig
    /\ \A s \in LaunchSessions : WF_vars(WaitPoll(s) \/ WaitTimeout(s) \/ Resend(s))

\* ------------------------------------------------------------------ claims
\* The Open state of a connection: accepted, and both of its tasks running.
Connected(s) ==
    /\ conn[s] = "open"
    /\ recv_task[s] = "running"
    /\ send_task[s] = "running"

\* The ids in the application's Vec (none when the index has no entry for it).
SessionSet(app) ==
    IF app \in DOMAIN application_clients
    THEN SeqToSet(application_clients[app])
    ELSE {}

IsEvent(frame, event) == frame.prefix = "42" /\ frame.event = event

Frames(s) == SeqToSet(chan[s])

PacketResponseFrame(packet) == encode_event("packet_response", packet)

CommandFrame(sender, app, cmd) ==
    encode_event("command_packet", CommandPacketWithSender(sender, app, cmd))

\* C1: when the relay dispatches a command_packet_response whose packet.senderId
\* is the id of a connected session, the packet_response carrying that packet is
\* appended to the channel of that session and no other channel changes,
\* whichever session sent it and whatever the application index holds.
C1_ResponseOnlyToOriginator ==
    [][\A s \in Sessions, packet \in Packets :
          (RecvCommandPacketResponse(s, packet) /\ Connected(packet.senderId))
          => /\ chan'[packet.senderId] =
                   Append(chan[packet.senderId], PacketResponseFrame(packet))
             /\ \A t \in Sessions \ {packet.senderId} : chan'[t] = chan[t]]_vars

\* C1 witness: two sessions are registered for one application, a third connected
\* session holds the packet_response addressed to it, and no other channel holds
\* a packet_response.
C1_Witness ==
    \E c \in Sessions, app \in Apps, packet \in Packets :
        /\ Cardinality(SessionSet(app)) >= 2
        /\ c \notin SessionSet(app)
        /\ Connected(c)
        /\ packet.senderId = c
        /\ chan[c] = <<PacketResponseFrame(packet)>>
        /\ \A t \in Sessions \ {c} :
              \A f \in Frames(t) : ~IsEvent(f, "packet_response")

\* C2: when the relay dispatches a command_packet of session s for an
\* application whose session set is not empty, the command_packet event tagged
\* with senderId = s is appended to the channel of every connected session of
\* that set, and the channel of every session outside the set is unchanged.
C2_CommandToEverySessionOfApplication ==
    [][\A s \in Sessions, app \in Apps, cmd \in Commands :
          (RecvCommandPacket(s, app, cmd) /\ SessionSet(app) # {})
          => \A t \in Sessions :
                /\ (t \in SessionSet(app) /\ Connected(t))
                      => chan'[t] = Append(chan[t], CommandFrame(s, app, cmd))
                /\ t \notin SessionSet(app) => chan'[t] = chan[t]]_vars

\* C2 witness: two connected sessions of one application each hold, as the newest
\* frame, the command sent by a third session that is outside the set and holds
\* no command.
C2_Witness ==
    \E c \in Sessions, app \in Apps, cmd \in Commands :
        /\ Cardinality(SessionSet(app)) >= 2
        /\ c \notin SessionSet(app)
        /\ \A t \in SessionSet(app) :
              /\ Connected(t)
              /\ chan[t] # <<>>
              /\ chan[t][Len(chan[t])] = CommandFrame(c, app, cmd)
        /\ \A f \in Frames(c) : ~IsEvent(f, "command_packet")

\* The sessions whose record names the application.
RegisteredFor(app) == {t \in DOMAIN clients : clients[t].application = app}

\* No session is registered for the application: no record names it and no id
\* of its Vec is in the primary table.
ZeroRegistered(app) ==
    /\ RegisteredFor(app) = {}
    /\ \A t \in SessionSet(app) : t \notin DOMAIN clients

\* No task is between two registry operations of register_client or
\* unregister_client.
Quiescent ==
    \A t \in Sessions : rpc[t] = "idle" /\ conn[t] \notin {"unreg2", "unreg3"}

\* C3: with auto-launch off, when a connected session s sends a command_packet
\* for an application with zero registered sessions, exactly one packet_response
\* with status FAILURE, senderId = s and a message naming the application is
\* appended to the channel of s, and no other channel changes.  (Stated for the
\* dispatches that find no registry operation in progress, which is enough to
\* refute it.)
C3_FailureWhenNoSessionRegistered ==
    [][\A s \in Sessions, app \in Apps, cmd \in Commands :
          ( /\ RecvCommandPacket(s, app, cmd) \/ RecvCommandPacketNoTarget(s, app, cmd)
            /\ Connected(s)
            /\ ~auto_launch
            /\ Quiescent
            /\ ZeroRegistered(app) )
          => /\ chan'[s] = Append(chan[s], PacketResponseFrame(FailurePacket(s, app, None)))
             /\ \A t \in Sessions \ {s} : chan'[t] = chan[t]]_vars

\* The relay under the scheduling tokio gives: a send_task that has a frame to
\* take from its channel is eventually polled.
FairSpec == Spec /\ \A s \in Sessions : WF_vars(SendTaskWrite(s))

SuccessPackets == {packet \in Packets : packet.senderId # NoSender /\ packet.status = "SUCCESS"}

\* C4: a packet_response is only ever in the channel or on the socket of the
\* session its senderId names, and a SUCCESS packet_response in the channel of a
\* session c is eventually written to the socket of c, with the same payload,
\* unless the connection of c leaves the Open state.
C4_EndToEnd ==
    /\ [](\A t \in Sessions : \A f \in Frames(t) \cup {socket[t]} :
             IsEvent(f, "packet_response") => f.data.senderId = t)
    /\ \A packet \in SuccessPackets :
          (PacketResponseFrame(packet) \in Frames(packet.senderId))
             ~> \/ socket[packet.senderId] = PacketResponseFrame(packet)
                \/ ~Connected(packet.senderId)

\* C4 witness: client c has no identity, agent a is registered for the
\* application, the socket of a last carried the command tagged with the id of
\* c, and the socket of c last carried the SUCCESS packet_response.
C4_Witness ==
    \E c \in Sessions, a \in Sessions, app \in Apps, cmd \in Commands,
       packet \in SuccessPackets :
        /\ a # c
        /\ Connected(c) /\ Connected(a)
        /\ clients[c].application = None
        /\ clients[a].application = app
        /\ a \in SessionSet(app)
        /\ socket[a] = CommandFrame(c, app, cmd)
        /\ packet.senderId = c
        /\ socket[c] = PacketResponseFrame(packet)

\* C5: unregister_client runs at most once for a session; it has not run while
\* the connection is open; and once handle_socket has passed its select!, it has
\* run exactly once, the record is out of the primary table and neither task of
\* the connection is running.
C5_CleanupExactlyOnce ==
    \A s \in Sessions :
        /\ unregister_calls[s] <= 1
        /\ conn[s] \in {"new", "open"} => unregister_calls[s] = 0
        /\ conn[s] \in {"unreg2", "unreg3", "done"} =>
              /\ unregister_calls[s] = 1
              /\ s \notin DOMAIN clients
              /\ recv_task[s] = "stopped"
              /\ send_task[s] = "stopped"
        /\ (conn[s] = "open" /\ s \in DOMAIN clients) \/ conn[s] # "open"

\* C5 witness: two connections that handled events have both been torn down,
\* each cleaned up exactly once and gone from the session table.
C5_Witness ==
    \E s \in Sessions, t \in Sessions :
        /\ s # t
        /\ conn[s] = "done" /\ conn[t] = "done"
        /\ unregister_calls[s] = 1 /\ unregister_calls[t] = 1
        /\ s \notin DOMAIN clients /\ t \notin DOMAIN clients
        /\ events > 0

\* C6: once the cleanup of a session has run to its end, its id is in neither
\* the primary table nor the session set of any application.
C6_CleanupRemovesSessionEverywhere ==
    \A s \in Sessions :
        conn[s] = "done" =>
            /\ s \notin DOMAIN clients
            /\ \A app \in DOMAIN application_clients : s \notin SessionSet(app)

\* C7: a session id is in the session set of at most one application.
C7_AtMostOneApplicationPerSession ==
    \A s \in Sessions :
        Cardinality({app \in DOMAIN application_clients : s \in SessionSet(app)}) <= 1

\* C8: once the last session registered for an application has disconnected,
\* the status snapshot does not list the application: every application the
\* snapshot lists has, in its session set, a session whose cleanup has not
\* finished, or is the application whose entry a running cleanup is about to
\* remove.
C8_StatusListsOnlyLiveApplications ==
    \A app \in DOMAIN get_status :
        \E t \in Sessions :
            \/ t \in SessionSet(app) /\ conn[t] # "done"
            \/ conn[t] = "unreg3" /\ uapp[t] = app

\* C9: no entry of the application index maps to an empty session set.
C9_NoEmptyApplicationEntry ==
    \A app \in DOMAIN application_clients : application_clients[app] # <<>>

\* A step of the teardown of session a: the select! with clients.remove, or a
\* later registry operation of unregister_client.
CleanupStep(a) ==
    /\ conn[a] \in {"open", "unreg2", "unreg3"}
    /\ conn'[a] \in {"unreg2", "unreg3", "done"}
    /\ conn'[a] # conn[a]

\* C10: a step of the teardown of session a leaves every other connected
\* session with its record, its channel and its membership in every session set
\* it was in.
C10_CleanupLeavesOtherSessionsAlone ==
    [][\A a \in Sessions :
          CleanupStep(a) =>
             \A b \in Sessions \ {a} :
                Connected(b) =>
                   /\ b \in DOMAIN clients'
                   /\ clients'[b] = clients[b]
                   /\ chan'[b] = chan[b]
                   /\ \A app \in DOMAIN application_clients :
                         b \in SessionSet(app) =>
                            /\ app \in DOMAIN application_clients'
                            /\ b \in SeqToSet(application_clients'[app])]_vars

RegistrationFrame(app) == encode_event("registration_response", RegistrationResponse(app))

\* C11: a register event of a connected session s records the application on
\* the record of s, puts s (once) into the session set of that application, and
\* appends exactly one registration_response with status success to the channel
\* of s while every other channel stays as it was.
C11_RegisterAddsSessionAndAcknowledges ==
    [][\A s \in Sessions :
          /\ \A app \in Apps :
                RecvRegister1(s, app) =>
                   s \in DOMAIN clients' /\ clients'[s].application = app
          /\ (RecvRegister2(s) /\ Connected(s)) =>
                LET app == rarg[s].application IN
                /\ s \in DOMAIN clients' /\ clients'[s].application = app
                /\ app \in DOMAIN application_clients'
                /\ Len(SelectSeq(application_clients'[app], LAMBDA id : id = s)) = 1
                /\ RegistrationResponse(app).status = "success"
                /\ chan'[s] = Append(chan[s], RegistrationFrame(app))
                /\ \A t \in Sessions \ {s} : chan'[t] = chan[t]]_vars

\* C11 witness: a connected session is registered for an application that had no
\* entry before, holds the one registration_response in its channel, and another
\* connected session holds none.
C11_Witness ==
    \E s \in Sessions, t \in Sessions, app \in Apps :
        /\ s # t
        /\ Connected(s) /\ Connected(t)
        /\ clients[s].application = app
        /\ application_clients = (app :> <<s>>)
        /\ chan[s] = <<RegistrationFrame(app)>>
        /\ chan[t] = <<>>
        /\ ~IsEvent(socket[t], "registration_response")

\* No Vec of the application index holds an id twice.
NoDuplicateIds ==
    \A app \in DOMAIN application_clients :
        Len(application_clients[app]) = Cardinality(SeqToSet(application_clients[app]))

\* C12: registering a session for the application it is already registered for
\* changes neither the primary table nor the application index, and no session
\* set ever holds an id more than once.
C12_SetApplicationIdempotent ==
    /\ []NoDuplicateIds
    /\ [][\A s \in Sessions :
            /\ \A app \in Apps :
                  ( /\ RecvRegister1(s, app)
                    /\ s \in DOMAIN clients
                    /\ clients[s].application = app ) => clients' = clients
            /\ (RecvRegister2(s) /\ s \in SessionSet(rarg[s].application)) =>
                  /\ application_clients' = application_clients
                  /\ clients' = clients]_vars

\* C12 witness: a connected session has been acknowledged twice for the same
\* application and the set of that application holds its id once.
C12_Witness ==
    \E s \in Sessions, app \in Apps :
        /\ Connected(s)
        /\ clients[s].application = app
        /\ application_clients = (app :> <<s>>)
        /\ chan[s] = <<RegistrationFrame(app), RegistrationFrame(app)>>

\* An event frame or a pong.
IsEventOrPong(frame) == frame.prefix \in {"42", "3"}

\* C13: the first frame written to the socket of an accepted connection is the
\* open frame with the session's id and the keepalive parameters, the second is
\* the connect acknowledgement 40, and an event frame or a pong is written only
\* to a socket on which both have been written.
C13_HandshakeFramesFirst ==
    [][\A s \in Sessions :
          /\ (socket[s] = Closed /\ socket'[s] # Closed) =>
                /\ socket'[s] = OpenFrame(s)
                /\ socket'[s].prefix = "0" /\ socket'[s].sid = s
          /\ (socket[s] = OpenFrame(s) /\ socket'[s] \notin {OpenFrame(s), Closed}) =>
                socket'[s] = SOCKET_IO_CONNECT
          /\ (socket'[s] # socket[s] /\ IsEventOrPong(socket'[s])) =>
                /\ conn[s] = "open"
                /\ socket[s] = SOCKET_IO_CONNECT \/ IsEventOrPong(socket[s])]_vars

\* C13 witness: one connection has written both handshake frames and nothing
\* else while a frame waits in its channel, and another is between the two
\* handshake frames with a frame already waiting in its channel.
C13_Witness ==
    \E s \in Sessions, t \in Sessions :
        /\ s # t
        /\ conn[s] = "open" /\ socket[s] = SOCKET_IO_CONNECT /\ chan[s] # <<>>
        /\ conn[t] = "handshake" /\ socket[t] = OpenFrame(t) /\ chan[t] # <<>>

\* C14: a ping taken by the reader of an open connection appends the pong frame
\* to the channel of that session within the same step of the reader, leaves
\* every other channel and both registry tables unchanged, and does not enter
\* the event router.
C14_PingAnsweredWithPong ==
    [][\A s \in Sessions :
          (RecvPing(s) /\ Connected(s)) =>
             /\ ENGINE_PONG.prefix = "3"
             /\ chan'[s] = Append(chan[s], ENGINE_PONG)
             /\ \A t \in Sessions \ {s} : chan'[t] = chan[t]
             /\ clients' = clients
             /\ application_clients' = application_clients
             /\ rpc'[s] = "idle" /\ rarg'[s] = NoArg
             /\ Connected(s)']_vars

\* C14 witness: a connected session of a relay with a registered application
\* has the pong as the only frame of its channel.
C14_Witness ==
    \E s \in Sessions :
        /\ Connected(s)
        /\ chan[s] = <<ENGINE_PONG>>
        /\ application_clients # <<>>
        /\ \A t \in Sessions \ {s} : ENGINE_PONG \notin Frames(t)

\* chan2 is chan1 with one frame appended.
IsAppend(chan1, chan2) ==
    /\ Len(chan2) = Len(chan1) + 1
    /\ SubSeq(chan2, 1, Len(chan1)) = chan1

\* C15: the channel of a session is a queue: a step that changes it appends one
\* frame at its end, or removes its oldest frame while writing that frame to
\* the socket, or empties it when the receiver is gone; a write of send_task
\* to the socket is always the oldest frame of the channel.  The reader of a
\* session takes its next inbound frame only when the handling of the previous
\* one is complete.
C15_FramesKeepOrder ==
    [][\A s \in Sessions :
          /\ chan'[s] # chan[s] =>
                \/ IsAppend(chan[s], chan'[s])
                \/ /\ chan[s] # <<>>
                   /\ chan'[s] = Tail(chan[s])
                   /\ socket'[s] = Head(chan[s])
                   /\ send_task'[s] = "running"
                \/ chan'[s] = <<>> /\ ~RxAlive(s)'
          /\ (socket'[s] # socket[s] /\ conn[s] = "open" /\ conn'[s] = "open") =>
                /\ chan[s] # <<>>
                /\ socket'[s] = Head(chan[s])
                /\ chan'[s] = Tail(chan[s])
          /\ (rpc[s] # "idle" /\ events' # events) =>
                rpc'[s] = rpc[s] /\ rarg'[s] = rarg[s]]_vars

\* C15 witness: a connected session has had an event frame or a pong written to
\* its socket and two different frames wait in its channel.
C15_Witness ==
    \E s \in Sessions :
        /\ Connected(s)
        /\ IsEventOrPong(socket[s])
        /\ Len(chan[s]) >= 2
        /\ chan[s][1] # chan[s][2]

\* A step that changes neither registry table, no channel, no socket and the
\* position of no connection handler.
FrameDropped ==
    /\ clients' = clients
    /\ application_clients' = application_clients
    /\ chan' = chan
    /\ socket' = socket
    /\ conn' = conn

\* A connection that is open before and after the step, with its reader back at
\* the point where it takes the next inbound frame.
StaysOpen(s) ==
    /\ conn[s] = "open" /\ conn'[s] = "open"
    /\ send_task'[s] = send_task[s]
    /\ Reading(s)'

\* The relay is quiet: nothing is registered, no channel holds a frame, no
\* reader is inside an event, and no connection has ended.
Quiet ==
    /\ application_clients = <<>>
    /\ \A t \in Sessions :
          /\ chan[t] = <<>>
          /\ rpc[t] = "idle"
          /\ conn[t] \in {"new", "handshake", "open", "failed"}
          /\ conn[t] = "open" => recv_task[t] = "running" /\ send_task[t] = "running"

\* C16: an event with a name other than register, command_packet and
\* command_packet_response changes neither the primary table nor the application
\* index, appends nothing to any channel, and leaves the connection that sent it
\* open with its reader ready for the next frame.
C16_UnknownEventIgnored ==
    [][\A s \in Sessions, event \in UnknownEvents :
          RecvUnknownEvent(s, event) =>
             /\ event \notin {"register", "command_packet", "command_packet_response"}
             /\ FrameDropped
             /\ StaysOpen(s)]_vars

\* C16 witness: one session is registered and acknowledged, a second connected
\* session has never been sent anything, and the relay has taken one more
\* inbound frame than the registration.
C16_Witness ==
    \E s \in Sessions, t \in Sessions, app \in Apps :
        /\ s # t
        /\ Connected(s) /\ Connected(t)
        /\ application_clients = (app :> <<t>>)
        /\ socket[t] = RegistrationFrame(app)
        /\ socket[s] = SOCKET_IO_CONNECT
        /\ chan[s] = <<>> /\ chan[t] = <<>>
        /\ events = 2

\* C17: a known event whose payload does not deserialize, and a text frame that
\* does not decode as an event, change neither registry table, append nothing
\* to any channel, and leave the connection open with its reader ready for the
\* next frame.
C17_MalformedInputDropped ==
    [][\A s \in Sessions :
          ( \/ \E event \in KnownEvents : RecvMalformedPayload(s, event)
            \/ RecvUndecodable(s) ) =>
             /\ FrameDropped
             /\ StaysOpen(s)]_vars

\* C17 witness: the relay has taken as many inbound frames as the bound allows,
\* all on connections that are still open, nothing but the handshake has been
\* written to any socket, and the relay is quiet: every frame was dropped.
C17_Witness ==
    /\ events = MaxEvents
    /\ Quiet
    /\ \E s \in Sessions : Connected(s)
    /\ \A t \in Sessions : conn[t] = "open" => socket[t] = SOCKET_IO_CONNECT

\* A session whose connection is neither in its handshake nor open.
NotConnected(c) == conn[c] \notin {"handshake", "open"}

\* C18: a command_packet_response without a string senderId, or with a
\* senderId that names a session whose connection is not up (never accepted,
\* failed in the handshake, or torn down), appends nothing to any channel and
\* changes neither registry table.
C18_ResponseWithoutRecipientDropped ==
    [][\A s \in Sessions, packet \in Packets :
          ( \/ RecvCommandPacketResponseNoSender(s, packet)
            \/ RecvCommandPacketResponse(s, packet) /\ NotConnected(packet.senderId) ) =>
             /\ chan' = chan
             /\ clients' = clients
             /\ application_clients' = application_clients]_vars

\* C18 witness: a session whose handshake failed is still in the primary table,
\* another session has been torn down, a third session is connected, the relay
\* has taken as many inbound frames as the bound allows, and no channel holds a
\* frame.
C18_Witness ==
    \E a \in Sessions, c \in Sessions, d \in Sessions :
        /\ Connected(a)
        /\ conn[c] = "failed" /\ c \in DOMAIN clients
        /\ conn[d] = "done" /\ d \notin DOMAIN clients
        /\ events = MaxEvents
        /\ \A t \in Sessions : chan[t] = <<>>

\* The reader of s is inside an auto-launch attempt: in wait_for_application,
\* or between its successful return and the second send_to_application.
Launching(s) == rpc[s] \in {"wait", "resend"}

\* C19: a reader enters an auto-launch attempt only in a step that handles a
\* command_packet for an application without an entry in the application index,
\* and only with auto-launch configured; a reader is inside an attempt only
\* with auto-launch configured and while it holds that command; register,
\* command_packet_response and unknown events never start an attempt.
C19_AutoLaunchOnlyForUnroutedCommand ==
    /\ [](\A s \in Sessions :
             Launching(s) => auto_launch /\ rarg[s].command \in Commands)
    /\ [][\A s \in Sessions :
            /\ (~Launching(s) /\ Launching(s)') =>
                  /\ auto_launch
                  /\ \E app \in Apps, cmd \in Commands :
                        /\ RecvCommandPacketLaunch(s, app, cmd)
                        /\ app \notin DOMAIN application_clients
            /\ ( \/ \E app \in Apps : RecvRegister1(s, app)
                 \/ RecvRegister2(s)
                 \/ \E packet \in Packets : RecvCommandPacketResponse(s, packet)
                 \/ \E packet \in Packets : RecvCommandPacketResponseNoSender(s, packet)
                 \/ \E event \in UnknownEvents : RecvUnknownEvent(s, event) ) =>
                  ~Launching(s)']_vars

\* C19 witness: with auto-launch configured, a connected session waits in an
\* auto-launch attempt for an application without an entry while the other
\* application has a registered session.
C19_Witness ==
    \E s \in Sessions, t \in Sessions :
        /\ auto_launch
        /\ Connected(s) /\ Connected(t)
        /\ rpc[s] = "wait"
        /\ rarg[s].application \notin DOMAIN application_clients
        /\ clients[t].application \in Apps \ {rarg[s].application}
        /\ t \in SessionSet(clients[t].application)

\* C20: when the reader of a connected session s leaves an auto-launch attempt
\* while a connected session t is registered for the target application, with
\* no registry operation in progress, the command tagged with the id of s is
\* appended to the channel of t and nothing (no FAILURE response) is appended
\* to the channel of s.
C20_LaunchedCommandForwarded ==
    [][\A s \in Sessions, t \in Sessions :
          ( /\ s # t
            /\ Launching(s) /\ ~Launching(s)'
            /\ Connected(s) /\ Connected(s)'
            /\ Connected(t)
            /\ Quiescent'
            /\ clients[t].application = rarg[s].application
            /\ t \in SessionSet(rarg[s].application) ) =>
             /\ chan'[t] = Append(chan[t],
                    CommandFrame(s, rarg[s].application, rarg[s].command))
             /\ chan'[s] = chan[s]]_vars

TimeoutFailureFrame(s, app) ==
    PacketResponseFrame(FailurePacket(s, app, "no client registered within timeout"))

\* C21: a reader inside the auto-launch poll always leaves it, and when it
\* leaves it on an open connection while no session is registered for the
\* target application, the handling of the command ends with exactly one
\* FAILURE packet_response, carrying the timeout note, appended to the channel
\* of the originator and nothing appended to any other channel.
C21_PollEndsWithTimeoutFailure ==
    /\ \A s \in LaunchSessions : (rpc[s] = "wait") ~> (rpc[s] # "wait")
    /\ [][\A s \in Sessions :
            ( /\ rpc[s] = "wait" /\ rpc'[s] # "wait"
              /\ ~has_application_client(rarg[s].application)
              /\ Connected(s) /\ Connected(s)' ) =>
               /\ rpc'[s] = "idle"
               /\ chan'[s] = Append(chan[s], TimeoutFailureFrame(s, rarg[s].application))
               /\ \A u \in Sessions \ {s} : chan'[u] = chan[u]]_vars

\* C21 witness: with auto-launch configured and nothing registered, a connected
\* session has finished its command and holds the FAILURE response with the
\* timeout note as the only frame of its channel.
C21_Witness ==
    \E s \in Sessions, app \in Apps :
        /\ auto_launch
        /\ Connected(s)
        /\ rpc[s] = "idle"
        /\ application_clients = <<>>
        /\ chan[s] = <<TimeoutFailureFrame(s, app)>>

NoExecutableFrame(s, app) ==
    PacketResponseFrame(FailurePacket(s, app, "no executable found"))

\* C22: with auto-launch configured, a command_packet for which
\* try_launch_application returns false never enters the poll: in the same step
\* of the reader one FAILURE packet_response with the note that no executable
\* was found is appended to the channel of the originator, and no other channel
\* changes.
C22_NoExecutableFailsWithoutPoll ==
    [][\A s \in Sessions, app \in Apps, cmd \in Commands :
          (RecvCommandPacketNoTarget(s, app, cmd) /\ auto_launch /\ Connected(s)) =>
             /\ ~Launching(s)'
             /\ chan'[s] = Append(chan[s], NoExecutableFrame(s, app))
             /\ \A u \in Sessions \ {s} : chan'[u] = chan[u]]_vars

\* C22 witness: with auto-launch configured, a connected session outside any
\* launch attempt holds the no-executable FAILURE response in its channel.
C22_Witness ==
    \E s \in Sessions, app \in Apps :
        /\ auto_launch
        /\ Connected(s)
        /\ rpc[s] = "idle"
        /\ app \notin DOMAIN application_clients
        /\ chan[s] = <<NoExecutableFrame(s, app)>>

C24_DecodeInvertsEncode ==
    \A event \in CodecEvents, data \in CodecPayloads :
        message = encode_event_text(event, data) =>
            decoded \in {NotDecoded, Some(event, data)}

\* C24 witness: an encoded frame with a nested object as payload has been
\* decoded to its event name and payload.
C24_Witness ==
    \E event \in CodecEvents, data \in CodecPayloads :
        /\ data.t = "obj"
        /\ \E i \in 1..Len(data.items) : data.items[i].t = "obj"
        /\ message = encode_event_text(event, data)
        /\ decoded = Some(event, data)

\* C25: for a frame that does not start with the event prefix 42, decode_event
\* returns nothing.
C25_DecodeRejectsNonEvent ==
    ~starts_with(message, SOCKET_IO_EVENT_PREFIX) =>
        decoded \in {NotDecoded, Nothing}

\* C25 witness: the frame 41 followed by a well-formed event array has been
\* decoded to nothing.
C25_Witness ==
    /\ message = <<Ch("4"), Ch("1")>> \o Ser(EventArray("register", JNull))
    /\ decoded = Nothing

\* C26: for a frame 42, a namespace without "[", and the array
\* [event, payload], decode_event returns (event, payload), which is what it
\* returns for the frame without the namespace.
C26_DecodeSkipsNamespace ==
    \A ns \in NamespacesWithoutBracket, event \in CodecEvents, data \in CodecPayloads :
        ( /\ message = SOCKET_IO_EVENT_PREFIX \o ns \o Ser(EventArray(event, data))
          /\ decoded # NotDecoded ) =>
            /\ decoded = Some(event, data)
            /\ decoded = decode_event(encode_event_text(event, data))

\* C26 witness: the frame 42/uxp,["command_packet",{"application":"acrobat"}]
\* has been decoded to that event and payload.
C26_Witness ==
    /\ message = SOCKET_IO_EVENT_PREFIX
                    \o <<Ch("/"), Ch("u"), Ch("x"), Ch("p"), Ch(",")>>
                    \o Ser(EventArray("command_packet",
                                      JObj(<<JStr("application"), JStr("acrobat")>>)))
    /\ decoded = Some("command_packet", JObj(<<JStr("application"), JStr("acrobat")>>))

\* The value is an array of two elements whose first element is a string.
IsEventArray(v) == v.t = "arr" /\ Len(v.items) = 2 /\ v.items[1].t = "str"

\* C27: for a frame 42, a namespace without "[", and text that is not JSON or
\* is a JSON value other than a two-element array with a string first,
\* decode_event returns nothing.
C27_DecodeRejectsOtherShapes ==
    \A ns \in NamespacesWithoutBracket :
        /\ \A v \in TopValues :
              ( /\ message = SOCKET_IO_EVENT_PREFIX \o ns \o Ser(v)
                /\ ~IsEventArray(v) ) => decoded \in {NotDecoded, Nothing}
        /\ \A json \in InvalidJson :
              message = SOCKET_IO_EVENT_PREFIX \o ns \o json =>
                 decoded \in {NotDecoded, Nothing}

\* C28: whenever no registry operation is in progress, the status snapshot
\* lists exactly the applications for which some session that is still in the
\* session table is registered, each with the number of those sessions.
C28_StatusCountsRegisteredSessions ==
    Quiescent =>
        \A app \in Apps :
            /\ app \in DOMAIN get_status <=> RegisteredFor(app) # {}
            /\ app \in DOMAIN get_status =>
                  get_status[app] = Cardinality(RegisteredFor(app))

\* Every accepted connection is either open with both tasks running or fully
\* cleaned up.
NoTeardownInProgress ==
    \A t \in Sessions : conn[t] \in {"new", "done", "failed"} \/ Connected(t)

\* C29: when the relay, with no registry operation and no teardown in
\* progress, handles a command_packet of a connected session s, the step
\* appends the command to the channel of at least one connected session or
\* appends a FAILURE packet_response to the channel of s.
C29_CommandGetsOutcome ==
    [][\A s \in Sessions, app \in Apps, cmd \in Commands :
          ( /\ RecvCommandPacket(s, app, cmd) \/ RecvCommandPacketNoTarget(s, app, cmd)
            /\ Connected(s)
            /\ Quiescent
            /\ NoTeardownInProgress )
          => \/ \E t \in Sessions :
                   /\ Connected(t)
                   /\ chan'[t] = Append(chan[t], CommandFrame(s, app, cmd))
             \/ \E note \in {None, "no executable found"} :
                   chan'[s] = Append(chan[s],
                                     PacketResponseFrame(FailurePacket(s, app, note)))]_vars

\* C30: when the second step of register_client for a session runs after the
\* cleanup of that session's connection has finished, so that both are done
\* after the step, the session id is in the Vec of no application.
C30_InterleavedRegisterLeavesNoId ==
    [][\A s \in Sessions :
          (RecvRegister2(s) /\ conn[s] = "done")
          => \A app \in DOMAIN application_clients' :
                s \notin SeqToSet(application_clients'[app])]_vars

\* The relay under the scheduling tokio gives to handle_socket: once a task of
\* the connection has ended, the select! and the cleanup behind it run.
FairCleanupSpec ==
    SpecAnyConfig
    /\ \A s \in LaunchSessions :
          WF_vars(SelectAbort(s) \/ Unregister2(s) \/ Unregister3(s))

\* The connection of the session has ended: a handshake write failed or one of
\* its two tasks has ended.
ConnectionEnded(s) ==
    \/ conn[s] = "failed"
    \/ conn[s] = "open" /\ (recv_task[s] = "ended" \/ send_task[s] = "ended")

\* C31: a session whose connection has ended is eventually out of the primary
\* table, a connection ended by a failed handshake write included.
C31_RecordEventuallyRemoved ==
    \A s \in LaunchSessions :
        ConnectionEnded(s) ~> (s \notin DOMAIN clients)

\* The first sequence is a gap-free prefix of the second.
IsPrefix(a, b) == Len(a) <= Len(b) /\ a = SubSeq(b, 1, Len(a))

\* C32: the channel frames written to a session's socket are always a gap-free
\* prefix of the frames put into its channel; a send_task whose receiver has
\* lagged writes nothing more; and from there the task ends, the connection is
\* torn down and the session is removed from the primary table.
C32_WriterNeverSkips ==
    /\ [](\A s \in Sessions : IsPrefix(written[s], sent[s]))
    /\ [][\A s \in Sessions :
            (send_task[s] = "running" /\ Lagged(s)) => written'[s] = written[s]]_vars
    /\ \A s \in Sessions :
          (send_task[s] = "running" /\ Lagged(s))
             ~> (send_task[s] = "stopped" /\ conn[s] = "done" /\ s \notin DOMAIN clients)

\* C32 witness: a session whose writer wrote at least one frame and then had
\* more frames pending than the channel retains has been torn down and
\* removed, with the written frames a proper prefix of the frames sent.
C32_Witness ==
    \E s \in Sessions :
        /\ written[s] # <<>>
        /\ Len(sent[s]) - Len(written[s]) > ChannelCapacity
        /\ sent[s][Len(written[s]) + 1] # sent[s][Len(sent[s]) - ChannelCapacity + 1]
        /\ send_task[s] = "stopped"
        /\ conn[s] = "done"
        /\ s \notin DOMAIN clients

\* The first task is at an acquire that the second task keeps it from: the
\* second holds the lock in a conflicting mode, or waits to write it while the
\* first wants to read it (a lock that prefers writers).
WaitsFor(t, u) ==
    /\ t # u
    /\ Busy(t)
    /\ NextLockStep(t).do = "acquire"
    /\ LET lock == NextLockStep(t).lock
           mode == NextLockStep(t).mode
       IN \/ HeldMode(u, lock) = "write"
          \/ mode = "write" /\ HeldMode(u, lock) # "none"
          \/ /\ mode = "read"
             /\ Wants(u, lock)
             /\ NextLockStep(u).mode = "write"
             /\ \E v \in Tasks \ {t, u} : HeldMode(v, lock) # "none"

\* C33: in every interleaving of the six registry operations, no task takes
\* the lock of application_clients while it holds the lock of clients, and no
\* set of tasks exists in which every task waits for a lock on a task of the set.
C33_NoLockCycle ==
    /\ \A t \in Tasks :
          HeldMode(t, "clients") # "none" => ~Wants(t, "application_clients")
    /\ \A D \in SUBSET Tasks :
          D # {} => \E t \in D : ~\E u \in D : WaitsFor(t, u)

\* C33 witness: a send_to_application holds application_clients and waits to
\* read clients, which a register_client holds for writing, while an
\* unregister_client waits to write application_clients.
C33_Witness ==
    \E t \in Tasks, u \in Tasks, v \in Tasks :
        /\ task_op[t].op = "send_to_application"
        /\ HeldMode(t, "application_clients") = "read"
        /\ Wants(t, "clients")
        /\ task_op[u].op = "register_client"
        /\ HeldMode(u, "clients") = "write"
        /\ task_op[v].op = "unregister_client"
        /\ Wants(v, "application_clients")

\* C34: when the reader of a session takes a connect control frame (40 or
\* 40/...) or a disconnect control frame (a text starting with 41), the
\* registry, every channel, the position of the reader inside the router, what
\* decode_event last returned, and the connection with its two tasks are
\* unchanged.
C34_ControlFramesChangeNothing ==
    [][\A s \in Sessions, text \in ReaderTexts :
          (ReadText(s, text) /\ (is_connect(text) \/ is_disconnect(text)))
          => UNCHANGED <<clients, application_clients, chan, rpc, rarg, decoded,
                         conn, recv_task, send_task, socket>>]_vars

\* C34 witness: the only accepted session is connected and registered, its
\* channel holds the registration_response alone, and the frame read last is a
\* disconnect control frame followed by a register event array.
C34_Witness ==
    \E s \in Sessions, app \in Apps :
        /\ Connected(s)
        /\ \A u \in Sessions \ {s} : conn[u] = "new"
        /\ s \in DOMAIN clients
        /\ clients[s].application = app
        /\ s \in SessionSet(app)
        /\ chan[s] = <<encode_event("registration_response", RegistrationResponse(app))>>
        /\ is_disconnect(message)
        /\ Len(message) > Len(SOCKET_IO_DISCONNECT)
        /\ message[Len(SOCKET_IO_DISCONNECT) + 1] = P("[")

\* C35: a response returned by a call of send_command is the response that was
\* produced for the command of that call.
C35_ResponseOfOwnCommand ==
    \A c \in Calls :
        control.result[c].kind = "response" => control.result[c].of = c

\* The text is a command_packet event whose payload has a string senderId and
\* a command that parses.
IsParseableCommand(text) ==
    /\ decode_event(text) # Nothing
    /\ decode_event(text).event = "command_packet"
    /\ Get(decode_event(text).data, "senderId").t = "str"
    /\ IsCommand(Get(decode_event(text).data, "command"))

C37_NoClientAfterUnload ==
    /\ [](~plugin.INITIALIZED =>
             plugin.client = NoClient /\ IsPluginConnected = 0)
    /\ [][(PluginInit /\ plugin.INITIALIZED) => plugin'.spawned = plugin.spawned]_vars

\* C38: the port field of every status snapshot the relay replies with equals
\* the port the relay was configured to bind to.
C38_StatusPortIsConfiguredPort ==
    server.response.status = "running" => server.response.port = server.port

====
